---------------------------- MODULE Spec2Model ----------------------------
(***************************************************************************)
(* A model of electrum2descriptors: the vendor (Electrum) extended-key     *)
(* codec, the descriptor assembly and parsing of the wallet file, and the  *)
(* wallet container with its validation and (de)serialization.             *)
(*                                                                         *)
(* Text is modelled as a sequence of tokens.  A token is a record          *)
(* [s, d]: a literal token has its text in s and d = <<>>; a base58 token  *)
(* (an extended key in text form) has the four leading characters of its   *)
(* text in s and the bytes it encodes (payload and checksum) in d.         *)
(* Literal tokens are single punctuation characters, single digits and     *)
(* maximal alphabetic words.  Field names and wallet-type strings are      *)
(* sequences of one-character literal tokens.                              *)
(***************************************************************************)
EXTENDS Integers, Sequences, FiniteSets, TLC

VARIABLES
    op,        \* the library operation performed last
    status,    \* its outcome: [tag: "ok" | "err" | "panic", kind, info]
    xkey,      \* the Electrum extended key held: [pub: Option, prv: Option]
    prevXkey,  \* the key held before a re-decoding of the last output
    text,      \* the text consumed by the last parsing operation
    out,       \* the texts produced by the last formatting operation
    wallet,    \* the wallet held: Option(ElectrumWalletFile)
    prevWallet,\* the wallet held before the stored document was read back
    wsrc,      \* how the wallet held was obtained
    file,      \* the stored document: Option(sequence of fields)
    arg        \* the parameters the input of the run was built from

vars == <<op, status, xkey, prevXkey, text, out, wallet, prevWallet, wsrc, file, arg>>

---------------------------------------------------------------------------
(* Bounds of the model *)

\* longest key list of a multisig descriptor or wallet
MaxSigners == 10
\* key lists up to this length are enumerated over the whole key pool
MaxFreeSigners == 2
\* largest min_signatures handed to ElectrumWalletFile::new
MaxMinSignatures == 3
\* most keystore fields of an enumerated stored document
MaxDocKeystores == 3
\* the most keystores of a document whose x<i>/ fields are read in any order
MaxReordered == 3

---------------------------------------------------------------------------
(* Text and bytes *)

Tok(s) == [s |-> s, d |-> <<>>]

IsLit(t) == t.d = <<>>

Byte == 0..255

\* the sum of the bytes of b, by halves
RECURSIVE SumBytes(_)
SumBytes(b) ==
    IF b = <<>> THEN 0
    ELSE IF Len(b) = 1 THEN b[1]
    ELSE SumBytes(SubSeq(b, 1, Len(b) \div 2))
         + SumBytes(SubSeq(b, (Len(b) \div 2) + 1, Len(b)))

\* Option<T> is a sequence of no or one element
None == <<>>

Some(v) == <<v>>

Ok(v) == [ok |-> TRUE, val |-> v]

Err(kind, info) == [ok |-> FALSE, err |-> [tag |-> "err", kind |-> kind, info |-> info]]

Panic(kind) == [ok |-> FALSE, err |-> [tag |-> "panic", kind |-> kind, info |-> <<>>]]

StatusOk == [tag |-> "ok", kind |-> "", info |-> <<>>]

\* the ? operator: the error of r, or what F makes of its value
Try(r, F(_)) == IF r.ok THEN F(r.val) ELSE r

\* the script kinds, as text
PKH == <<Tok("pkh")>>

WPKH == <<Tok("wpkh")>>

WSH == <<Tok("wsh")>>

SH_WPKH == <<Tok("sh"), Tok("("), Tok("wpkh")>>

SH_WSH == <<Tok("sh"), Tok("("), Tok("wsh")>>

\* str.contains('(')
ContainsParen(str) == \E i \in 1..Len(str) : str[i] = Tok("(")

---------------------------------------------------------------------------
(* The sentinel tables *)

\* a faulty table: the last entry copied from the xpub entry's prefix
sentinels_pub_duplicated ==
    << [prefix |-> <<4, 53, 135, 207>>,  network |-> "Testnet", kind |-> PKH],
       [prefix |-> <<4, 74, 82, 98>>,    network |-> "Testnet", kind |-> SH_WPKH],
       [prefix |-> <<2, 66, 137, 239>>,  network |-> "Testnet", kind |-> SH_WSH],
       [prefix |-> <<4, 95, 28, 246>>,   network |-> "Testnet", kind |-> WPKH],
       [prefix |-> <<2, 87, 84, 131>>,   network |-> "Testnet", kind |-> WSH],
       [prefix |-> <<4, 136, 178, 30>>,  network |-> "Bitcoin", kind |-> PKH],
       [prefix |-> <<4, 157, 124, 178>>, network |-> "Bitcoin", kind |-> SH_WPKH],
       [prefix |-> <<2, 149, 180, 63>>,  network |-> "Bitcoin", kind |-> SH_WSH],
       [prefix |-> <<4, 178, 71, 70>>,   network |-> "Bitcoin", kind |-> WPKH],
       [prefix |-> <<4, 136, 178, 30>>,  network |-> "Bitcoin", kind |-> WSH] >>

initialize_sentinels_pub ==
    << [prefix |-> <<4, 53, 135, 207>>,  network |-> "Testnet", kind |-> PKH],      \* tpub
       [prefix |-> <<4, 74, 82, 98>>,    network |-> "Testnet", kind |-> SH_WPKH],  \* upub
       [prefix |-> <<2, 66, 137, 239>>,  network |-> "Testnet", kind |-> SH_WSH],   \* Upub
       [prefix |-> <<4, 95, 28, 246>>,   network |-> "Testnet", kind |-> WPKH],     \* vpub
       [prefix |-> <<2, 87, 84, 131>>,   network |-> "Testnet", kind |-> WSH],      \* Vpub
       [prefix |-> <<4, 136, 178, 30>>,  network |-> "Bitcoin", kind |-> PKH],      \* xpub
       [prefix |-> <<4, 157, 124, 178>>, network |-> "Bitcoin", kind |-> SH_WPKH],  \* ypub
       [prefix |-> <<2, 149, 180, 63>>,  network |-> "Bitcoin", kind |-> SH_WSH],   \* Ypub
       [prefix |-> <<4, 178, 71, 70>>,   network |-> "Bitcoin", kind |-> WPKH],     \* zpub
       [prefix |-> <<2, 170, 126, 211>>, network |-> "Bitcoin", kind |-> WSH] >>    \* Zpub

\* a faulty table: the first entry carries the prefix of the public tpub entry
sentinels_priv_shared ==
    << [prefix |-> <<4, 53, 135, 207>>,  network |-> "Testnet", kind |-> PKH],
       [prefix |-> <<4, 74, 78, 40>>,    network |-> "Testnet", kind |-> SH_WPKH],
       [prefix |-> <<2, 66, 133, 181>>,  network |-> "Testnet", kind |-> SH_WSH],
       [prefix |-> <<4, 95, 24, 188>>,   network |-> "Testnet", kind |-> WPKH],
       [prefix |-> <<2, 87, 80, 72>>,    network |-> "Testnet", kind |-> WSH],
       [prefix |-> <<4, 136, 173, 228>>, network |-> "Bitcoin", kind |-> PKH],
       [prefix |-> <<4, 157, 120, 120>>, network |-> "Bitcoin", kind |-> SH_WPKH],
       [prefix |-> <<2, 149, 176, 5>>,   network |-> "Bitcoin", kind |-> SH_WSH],
       [prefix |-> <<4, 178, 67, 12>>,   network |-> "Bitcoin", kind |-> WPKH],
       [prefix |-> <<2, 170, 122, 153>>, network |-> "Bitcoin", kind |-> WSH] >>

initialize_sentinels_priv ==
    << [prefix |-> <<4, 53, 131, 148>>,  network |-> "Testnet", kind |-> PKH],      \* tprv
       [prefix |-> <<4, 74, 78, 40>>,    network |-> "Testnet", kind |-> SH_WPKH],  \* uprv
       [prefix |-> <<2, 66, 133, 181>>,  network |-> "Testnet", kind |-> SH_WSH],   \* Uprv
       [prefix |-> <<4, 95, 24, 188>>,   network |-> "Testnet", kind |-> WPKH],     \* vprv
       [prefix |-> <<2, 87, 80, 72>>,    network |-> "Testnet", kind |-> WSH],      \* Vprv
       [prefix |-> <<4, 136, 173, 228>>, network |-> "Bitcoin", kind |-> PKH],      \* xprv
       [prefix |-> <<4, 157, 120, 120>>, network |-> "Bitcoin", kind |-> SH_WPKH],  \* yprv
       [prefix |-> <<2, 149, 176, 5>>,   network |-> "Bitcoin", kind |-> SH_WSH],   \* Yprv
       [prefix |-> <<4, 178, 67, 12>>,   network |-> "Bitcoin", kind |-> WPKH],     \* zprv
       [prefix |-> <<2, 170, 122, 153>>, network |-> "Bitcoin", kind |-> WSH] >>    \* Zprv

\* the four leading characters of the base58 text of a 78-byte payload with
\* a version of either table (the names the tables' comments give)
SentinelNames ==
    << "tpub", "upub", "Upub", "vpub", "Vpub", "xpub", "ypub", "Ypub", "zpub", "Zpub",
       "tprv", "uprv", "Uprv", "vprv", "Vprv", "xprv", "yprv", "Yprv", "zprv", "Zprv" >>

AllSentinels == initialize_sentinels_pub \o initialize_sentinels_priv

\* Iterator::find: the index of the first element satisfying P, or 0
FindFirst(seq, P(_)) ==
    IF \E i \in 1..Len(seq) : P(seq[i])
    THEN CHOOSE i \in 1..Len(seq) : P(seq[i]) /\ \A j \in 1..(i - 1) : ~P(seq[j])
    ELSE 0

\* NetworkKind::from(Network)
NetworkKindFrom(network) == IF network = "Bitcoin" THEN "Main" ELSE "Test"

\* a faulty lookup: a version of no entry is taken for the first entry's
match_electrum_xpub_lenient(version) ==
    LET sentinels == initialize_sentinels_pub
        Hit(sent) == sent.prefix = version
        i == FindFirst(sentinels, Hit)
    IN  Ok([network |-> sentinels[IF i = 0 THEN 1 ELSE i].network,
            kind |-> sentinels[IF i = 0 THEN 1 ELSE i].kind])

match_electrum_xpub(version) ==
    LET sentinels == initialize_sentinels_pub
        Hit(sent) == sent.prefix = version
        i == FindFirst(sentinels, Hit)
    IN  IF i = 0
        THEN Err("InvalidExtendedKeyVersion", version)
        ELSE Ok([network |-> sentinels[i].network, kind |-> sentinels[i].kind])

match_electrum_xprv(version) ==
    LET sentinels == initialize_sentinels_priv
        Hit(sent) == sent.prefix = version
        i == FindFirst(sentinels, Hit)
    IN  IF i = 0
        THEN Err("InvalidExtendedKeyVersion", version)
        ELSE Ok([network |-> sentinels[i].network, kind |-> sentinels[i].kind])

---------------------------------------------------------------------------
(* The collaborators: base58 with checksum, secp256k1, BIP32 text form *)

PayloadLen == 78

\* a stand-in for the four checksum bytes of base58check
Checksum(data) ==
    LET s == SumBytes(data)
    IN  << s % 256, (s \div 256) % 256, Len(data) % 256, (s + Len(data)) % 256 >>

\* the leading characters of the base58 text of a payload
B58Name(data) ==
    LET Hit(sent) == Len(data) = PayloadLen /\ sent.prefix = SubSeq(data, 1, 4)
        i == FindFirst(AllSentinels, Hit)
    IN  IF i = 0 THEN "b58" ELSE SentinelNames[i]

\* base58::encode_check
encode_check(data) == << [s |-> B58Name(data), d |-> data \o Checksum(data)] >>

\* base58::decode_check
decode_check(str) ==
    IF Len(str) # 1 \/ IsLit(str[1])
    THEN Err("Base58", <<>>)
    ELSE LET raw == str[1].d
         IN  IF Len(raw) < 4
             THEN Err("Base58", <<Len(raw)>>)
             ELSE LET data == SubSeq(raw, 1, Len(raw) - 4)
                  IN  IF SubSeq(raw, Len(raw) - 3, Len(raw)) # Checksum(data)
                      THEN Err("Base58", <<>>)
                      ELSE Ok(data)

\* secp256k1::PublicKey::from_slice accepts a compressed point
PublicKey_from_slice(b) ==
    IF Len(b) = 33 /\ b[1] \in {2, 3} /\ (\E i \in 2..33 : b[i] # 0)
    THEN Ok(b)
    ELSE Err("Secp256k1", <<>>)

\* secp256k1::SecretKey::from_slice accepts a scalar in range
SecretKey_from_slice(b) ==
    IF Len(b) = 32 /\ (\E i \in 1..32 : b[i] # 0) /\ (\E i \in 1..32 : b[i] # 255)
    THEN Ok(b)
    ELSE Err("Secp256k1", <<>>)

\* the public point of a secret key (a stand-in for the curve arithmetic)
PublicKey_from_secret(sk) ==
    << 2 + (sk[32] % 2) >> \o [i \in 1..32 |-> (sk[i] * 3 + i) % 256]

\* a faulty reading: the four bytes taken little-endian
ChildNumber_from_le_bytes(b) ==
    [hardened |-> b[4] >= 128,
     index |-> (b[4] % 128) * 16777216 + b[3] * 65536 + b[2] * 256 + b[1]]

\* ChildNumber::from(u32::from_be_bytes(b)): the top bit is the hardened flag
ChildNumber_from_be_bytes(b) ==
    [hardened |-> b[1] >= 128,
     index |-> (b[1] % 128) * 16777216 + b[2] * 65536 + b[3] * 256 + b[4]]

\* a faulty writing: the hardened flag dropped
ChildNumber_to_be_bytes_unhardened(cn) ==
    << cn.index \div 16777216,
       (cn.index \div 65536) % 256,
       (cn.index \div 256) % 256,
       cn.index % 256 >>

\* u32::from(ChildNumber).to_be_bytes()
ChildNumber_to_be_bytes(cn) ==
    << (cn.index \div 16777216) + (IF cn.hardened THEN 128 ELSE 0),
       (cn.index \div 65536) % 256,
       (cn.index \div 256) % 256,
       cn.index % 256 >>


\* the version bytes of the BIP32 text form: those the tables name 'standard'
StandardVersionPub(network_kind) ==
    IF network_kind = "Main" THEN <<4, 136, 178, 30>> ELSE <<4, 53, 135, 207>>

StandardVersionPriv(network) ==
    IF network = "Bitcoin" THEN <<4, 136, 173, 228>> ELSE <<4, 53, 131, 148>>

\* Xpub::to_string
Xpub_to_string(xpub) ==
    encode_check(StandardVersionPub(xpub.network) \o <<xpub.depth>>
                 \o xpub.parent_fingerprint
                 \o ChildNumber_to_be_bytes(xpub.child_number)
                 \o xpub.chain_code \o xpub.public_key)

\* ExtendedPrivKey::to_string
ExtendedPrivKey_to_string(xprv) ==
    encode_check(StandardVersionPriv(xprv.network) \o <<xprv.depth>>
                 \o xprv.parent_fingerprint
                 \o ChildNumber_to_be_bytes(xprv.child_number)
                 \o xprv.chain_code \o <<0>> \o xprv.private_key.key)

\* ExtendedPubKey::from_str
ExtendedPubKey_from_str(str) ==
    LET r == decode_check(str)
    IN  IF ~r.ok THEN Err("Bip32", <<>>)
        ELSE IF Len(r.val) # PayloadLen THEN Err("Bip32", <<Len(r.val)>>)
        ELSE LET data == r.val
                 ver == SubSeq(data, 1, 4)
                 pk == PublicKey_from_slice(SubSeq(data, 46, 78))
             IN  IF ver \notin {StandardVersionPub("Main"), StandardVersionPub("Test")}
                 THEN Err("Bip32", ver)
                 ELSE IF ~pk.ok THEN Err("Bip32", <<>>)
                 ELSE Ok([network |-> IF ver = StandardVersionPub("Main")
                                      THEN "Main" ELSE "Test",
                          depth |-> data[5],
                          parent_fingerprint |-> SubSeq(data, 6, 9),
                          child_number |-> ChildNumber_from_be_bytes(SubSeq(data, 10, 13)),
                          chain_code |-> SubSeq(data, 14, 45),
                          public_key |-> pk.val])

\* ExtendedPrivKey::from_str
ExtendedPrivKey_from_str(str) ==
    LET r == decode_check(str)
    IN  IF ~r.ok THEN Err("Bip32", <<>>)
        ELSE IF Len(r.val) # PayloadLen THEN Err("Bip32", <<Len(r.val)>>)
        ELSE LET data == r.val
                 ver == SubSeq(data, 1, 4)
                 network == IF ver = StandardVersionPriv("Bitcoin")
                            THEN "Bitcoin" ELSE "Testnet"
                 sk == SecretKey_from_slice(SubSeq(data, 47, 78))
             IN  IF ver \notin {StandardVersionPriv("Bitcoin"), StandardVersionPriv("Testnet")}
                 THEN Err("Bip32", ver)
                 ELSE IF ~sk.ok THEN Err("Bip32", <<>>)
                 ELSE Ok([network |-> network,
                          depth |-> data[5],
                          parent_fingerprint |-> SubSeq(data, 6, 9),
                          child_number |-> ChildNumber_from_be_bytes(SubSeq(data, 10, 13)),
                          chain_code |-> SubSeq(data, 14, 45),
                          private_key |-> [compressed |-> TRUE,
                                           network |-> network,
                                           key |-> sk.val]])

\* ExtendedPubKey::from_priv
ExtendedPubKey_from_priv(xprv) ==
    [network |-> NetworkKindFrom(xprv.network),
     depth |-> xprv.depth,
     parent_fingerprint |-> xprv.parent_fingerprint,
     child_number |-> xprv.child_number,
     chain_code |-> xprv.chain_code,
     public_key |-> PublicKey_from_secret(xprv.private_key.key)]

---------------------------------------------------------------------------
(* The vendor codec: ElectrumExtendedPubKey and ElectrumExtendedPrivKey *)

ElectrumExtendedPubKey_new(xpub, kind) == [xpub |-> xpub, kind |-> kind]

ElectrumExtendedPrivKey_new(xprv, kind) == [xprv |-> xprv, kind |-> kind]

ElectrumExtendedPubKey_from_str(str) ==
    LET r == decode_check(str)
    IN  IF ~r.ok THEN r
        ELSE IF Len(r.val) # PayloadLen THEN Err("InvalidLength", <<Len(r.val)>>)
        ELSE LET data == r.val
                 child_number == ChildNumber_from_be_bytes(SubSeq(data, 10, 13))
                 m == match_electrum_xpub(SubSeq(data, 1, 4))
                 pk == PublicKey_from_slice(SubSeq(data, 46, 78))
             IN  IF ~m.ok THEN m
                 ELSE IF ~pk.ok THEN pk
                 ELSE Ok([xpub |-> [network |-> NetworkKindFrom(m.val.network),
                                    depth |-> data[5],
                                    parent_fingerprint |-> SubSeq(data, 6, 9),
                                    child_number |-> child_number,
                                    chain_code |-> SubSeq(data, 14, 45),
                                    public_key |-> pk.val],
                          kind |-> m.val.kind])

ElectrumExtendedPrivKey_from_str(str) ==
    LET r == decode_check(str)
    IN  IF ~r.ok THEN r
        ELSE IF Len(r.val) # PayloadLen THEN Err("InvalidLength", <<Len(r.val)>>)
        ELSE LET data == r.val
                 child_number == ChildNumber_from_be_bytes(SubSeq(data, 10, 13))
                 m == match_electrum_xprv(SubSeq(data, 1, 4))
                 key == SecretKey_from_slice(SubSeq(data, 47, 78))
             IN  IF ~m.ok THEN m
                 ELSE IF ~key.ok THEN key
                 ELSE Ok([xprv |-> [network |-> m.val.network,
                                    depth |-> data[5],
                                    parent_fingerprint |-> SubSeq(data, 6, 9),
                                    child_number |-> child_number,
                                    chain_code |-> SubSeq(data, 14, 45),
                                    private_key |-> [compressed |-> TRUE,
                                                     network |-> m.val.network,
                                                     key |-> key.val]],
                          kind |-> m.val.kind])

\* a faulty encoder: a pair of no entry is written with the first entry's prefix
electrum_xpub_defaulting(self) ==
    LET sentinels == initialize_sentinels_pub
        Hit(sent) == NetworkKindFrom(sent.network) = self.xpub.network
                     /\ sent.kind = self.kind
        i == FindFirst(sentinels, Hit)
    IN  Ok(encode_check(sentinels[IF i = 0 THEN 1 ELSE i].prefix
                        \o <<self.xpub.depth>>
                        \o self.xpub.parent_fingerprint
                        \o ChildNumber_to_be_bytes(self.xpub.child_number)
                        \o self.xpub.chain_code
                        \o self.xpub.public_key))

electrum_xpub(self) ==
    LET sentinels == initialize_sentinels_pub
        Hit(sent) == NetworkKindFrom(sent.network) = self.xpub.network
                     /\ sent.kind = self.kind
        i == FindFirst(sentinels, Hit)
    IN  IF i = 0 THEN Err("UnknownType", <<>>)
        ELSE LET data == sentinels[i].prefix \o <<self.xpub.depth>>
                          \o self.xpub.parent_fingerprint
                          \o ChildNumber_to_be_bytes(self.xpub.child_number)
                          \o self.xpub.chain_code
                          \o self.xpub.public_key
             IN  IF Len(data) # PayloadLen
                 THEN Err("InvalidLength", <<Len(data)>>)
                 ELSE Ok(encode_check(data))

electrum_xprv(self) ==
    LET sentinels == initialize_sentinels_priv
        Hit(sent) == sent.network = self.xprv.network /\ sent.kind = self.kind
        i == FindFirst(sentinels, Hit)
    IN  IF i = 0 THEN Err("UnknownType", <<>>)
        ELSE LET data == sentinels[i].prefix \o <<self.xprv.depth>>
                          \o self.xprv.parent_fingerprint
                          \o ChildNumber_to_be_bytes(self.xprv.child_number)
                          \o self.xprv.chain_code
                          \o <<0>>
                          \o self.xprv.private_key.key
             IN  IF Len(data) # PayloadLen
                 THEN Err("InvalidLength", <<Len(data)>>)
                 ELSE Ok(encode_check(data))

\* the decimal digit i as text
DigitTok(i) == Tok(<<"0", "1", "2", "3", "4", "5", "6", "7", "8", "9">>[i + 1])

\* format!("{}({}/{}/*){}", kind, key, i, closing_parenthesis)
FormatSingle(kind, key, i, closing_parenthesis) ==
    kind \o <<Tok("(")>> \o key
         \o <<Tok("/"), DigitTok(i), Tok("/"), Tok("*"), Tok(")")>>
         \o closing_parenthesis

\* ElectrumExtendedPubKey::to_descriptors: <<external, change>>
pub_to_descriptors(self) ==
    LET xpub == Xpub_to_string(self.xpub)
        closing_parenthesis == IF ContainsParen(self.kind) THEN <<Tok(")")>> ELSE <<>>
    IN  [i \in 1..2 |-> FormatSingle(self.kind, xpub, i - 1, closing_parenthesis)]

\* a faulty assembly: no closing parenthesis for a wrapped kind
priv_to_descriptors_unclosed(self) ==
    LET xprv == ExtendedPrivKey_to_string(self.xprv)
    IN  [i \in 1..2 |-> FormatSingle(self.kind, xprv, i - 1, <<>>)]

\* ElectrumExtendedPrivKey::to_descriptors: <<external, change>>
priv_to_descriptors(self) ==
    LET xprv == ExtendedPrivKey_to_string(self.xprv)
        closing_parenthesis == IF ContainsParen(self.kind) THEN <<Tok(")")>> ELSE <<>>
    IN  [i \in 1..2 |-> FormatSingle(self.kind, xprv, i - 1, closing_parenthesis)]


---------------------------------------------------------------------------
(* The wallet file: keystores, descriptor parsing and assembly, validation *)

Standard == [tag |-> "Standard", x |-> 0, y |-> 0]

Multisig(x, y) == [tag |-> "Multisig", x |-> x, y |-> y]

Addresses_new == [change |-> <<>>, receiving |-> <<>>]

\* Keystore::default_type
default_type == <<Tok("bip32")>>

\* Keystore::new
Keystore_new(kind, key) ==
    LET WithXpub(exprv, xpub) ==
            Try(electrum_xpub(ElectrumExtendedPubKey_new(xpub, kind)),
                LAMBDA expub : Ok([type |-> default_type, xprv |-> exprv, xpub |-> expub]))
        FromXprv(xprv) ==
            Try(electrum_xprv(ElectrumExtendedPrivKey_new(xprv, kind)),
                LAMBDA exprv : WithXpub(Some(exprv), ExtendedPubKey_from_priv(xprv)))
        FromKey(xprv) ==
            IF xprv.ok
            THEN FromXprv(xprv.val)
            ELSE Try(ExtendedPubKey_from_str(key), LAMBDA xpub : WithXpub(None, xpub))
    IN  FromKey(ExtendedPrivKey_from_str(key))

\* a faulty lookup: the public key even when there is a private key
get_xkey_public(self) ==
    Try(ElectrumExtendedPubKey_from_str(self.xpub),
        LAMBDA expub : Ok([pub |-> Some(expub), prv |-> None]))

\* Keystore::get_xkey: the private key if there is one, or else the public key
get_xkey(self) ==
    IF self.xprv # None
    THEN Try(ElectrumExtendedPrivKey_from_str(self.xprv[1]),
             LAMBDA exprv : Ok([pub |-> None, prv |-> Some(exprv)]))
    ELSE Try(ElectrumExtendedPubKey_from_str(self.xpub),
             LAMBDA expub : Ok([pub |-> Some(expub), prv |-> None]))

\* ElectrumExtendedKey::kind of a boxed key
kind_of(exkey) == IF exkey.prv # None THEN exkey.prv[1].kind ELSE exkey.pub[1].kind

\* ElectrumExtendedKey::xkey_str of a boxed key
xkey_str(exkey) ==
    IF exkey.prv # None
    THEN ExtendedPrivKey_to_string(exkey.prv[1].xprv)
    ELSE Xpub_to_string(exkey.pub[1].xpub)

\* whether the tokens of pat stand in str from position i on
MatchAt(str, i, pat) ==
    /\ i >= 1
    /\ i + Len(pat) - 1 <= Len(str)
    /\ \A k \in 1..Len(pat) : str[i + k - 1] = pat[k]

\* str.contains(pat)
Contains(str, pat) == \E i \in 1..Len(str) : MatchAt(str, i, pat)

\* a token matching [tx]p(ub|rv)[0-9A-Za-z]+ : the text of a standard key
IsStdKeyTok(t) == ~IsLit(t) /\ t.s \in {"tpub", "xpub", "tprv", "xprv"}

\* "/0/*"
Branch0 == <<Tok("/"), Tok("0"), Tok("/"), Tok("*")>>

\* "/1/*"
Branch1 == <<Tok("/"), Tok("1"), Tok("/"), Tok("*")>>

Digits == {Tok("0"), Tok("1"), Tok("2"), Tok("3"), Tok("4"),
           Tok("5"), Tok("6"), Tok("7"), Tok("8"), Tok("9")}

\* the value of a digit token
DigitVal(t) == CHOOSE v \in 0..9 : DigitTok(v) = t

\* the alternatives of the single-sig pattern, in its order
SingleKinds == <<PKH, SH_WPKH, SH_WSH, WPKH, WSH>>

\* (pkh|sh\(wpkh|sh\(wsh|wpkh|wsh)\((([tx]p(ub|rv)[0-9A-Za-z]+)/0/\*)\)+ at i
SingleMatchAt(desc, i, kind) ==
    LET j == i + Len(kind)
    IN  /\ MatchAt(desc, i, kind \o <<Tok("(")>>)
        /\ j + 1 <= Len(desc)
        /\ IsStdKeyTok(desc[j + 1])
        /\ MatchAt(desc, j + 2, Branch0 \o <<Tok(")")>>)

\* Regex::captures of the single-sig pattern: the leftmost match, the first
\* alternative that matches there; captures 1 to 3 as <<kind, _, xkey>>
SingleCaptures(desc) ==
    LET Hit(i, a) == SingleMatchAt(desc, i, SingleKinds[a])
        Capture(kind, key) == Some(<<kind, key \o Branch0, key>>)
        Alt(i, kind) == Capture(kind, <<desc[i + Len(kind) + 1]>>)
        At(i) == Alt(i, SingleKinds[CHOOSE b \in 1..Len(SingleKinds) :
                                       Hit(i, b) /\ \A c \in 1..(b - 1) : ~Hit(i, c)])
        Leftmost(Hits) == IF Hits = {} THEN None
                          ELSE At(CHOOSE h \in Hits : \A g \in Hits : h <= g)
    IN  Leftmost({i \in 1..Len(desc) : \E a \in 1..Len(SingleKinds) : Hit(i, a)})

\* ElectrumWalletFile::from_descriptor_singlesig
from_descriptor_singlesig(desc) ==
    LET Build(keystore) == Ok([addresses |-> Addresses_new,
                               keystores |-> <<keystore>>,
                               wallet_type |-> Standard])
        Parse(captures) ==
            IF captures = None
            THEN Err("UnknownDescriptorFormat", <<>>)
            ELSE Try(Keystore_new(captures[1][1], captures[1][3]), Build)
    IN  Parse(SingleCaptures(desc))

\* the alternatives of the multisig pattern, in its order
MultiKinds == <<<<Tok("sh")>>, SH_WSH, WSH>>

\* ([tx]p(ub|rv)[0-9A-Za-z]+/0/\*,?)+\)+ from position j on
RECURSIVE KeyGroupsAt(_, _)
KeyGroupsAt(desc, j) ==
    /\ j <= Len(desc)
    /\ IsStdKeyTok(desc[j])
    /\ MatchAt(desc, j + 1, Branch0)
    /\ LET e == j + 5
       IN  \/ MatchAt(desc, e, <<Tok(")")>>)
           \/ KeyGroupsAt(desc, e)
           \/ /\ MatchAt(desc, e, <<Tok(",")>>)
              /\ \/ MatchAt(desc, e + 1, <<Tok(")")>>)
                 \/ KeyGroupsAt(desc, e + 1)

\* (sh|sh\(wsh|wsh)\(sortedmulti\((\d),(...)+\)+ at i
MultiMatchAt(desc, i, kind) ==
    LET j == i + Len(kind)
    IN  /\ MatchAt(desc, i, kind \o <<Tok("("), Tok("sortedmulti"), Tok("(")>>)
        /\ j + 4 <= Len(desc)
        /\ desc[j + 3] \in Digits
        /\ desc[j + 4] = Tok(",")
        /\ KeyGroupsAt(desc, j + 5)

\* Regex::captures of the multisig pattern with its alternatives tried in the
\* order of kinds: the leftmost match, the first alternative that matches
\* there; captures 1 and 2 as <<kind, x>>
MultiCapturesIn(kinds, desc) ==
    LET Hit(i, a) == MultiMatchAt(desc, i, kinds[a])
        Alt(i, kind) == Some(<<kind, desc[i + Len(kind) + 3]>>)
        At(i) == Alt(i, kinds[CHOOSE b \in 1..Len(kinds) :
                                 Hit(i, b) /\ \A c \in 1..(b - 1) : ~Hit(i, c)])
        Leftmost(Hits) == IF Hits = {} THEN None
                          ELSE At(CHOOSE h \in Hits : \A g \in Hits : h <= g)
    IN  Leftmost({i \in 1..Len(desc) : \E a \in 1..Len(kinds) : Hit(i, a)})

\* the captures of a search that keeps the last match of the text
MultiCaptures_rightmost(desc) ==
    LET Hit(i, a) == MultiMatchAt(desc, i, MultiKinds[a])
        Alt(i, kind) == Some(<<kind, desc[i + Len(kind) + 3]>>)
        At(i) == Alt(i, MultiKinds[CHOOSE b \in 1..Len(MultiKinds) :
                                      Hit(i, b) /\ \A c \in 1..(b - 1) : ~Hit(i, c)])
        Rightmost(Hits) == IF Hits = {} THEN None
                           ELSE At(CHOOSE h \in Hits : \A g \in Hits : h >= g)
    IN  Rightmost({i \in 1..Len(desc) : \E a \in 1..Len(MultiKinds) : Hit(i, a)})

\* Regex::captures of (sh|sh\(wsh|wsh)\(sortedmulti\((\d),(...)+\)+
MultiCaptures(desc) == MultiCapturesIn(MultiKinds, desc)

\* a token matching [tx]p[ur][bv][0-9A-Za-z]+
IsScannedKeyTok(t) == ~IsLit(t) /\ t.s \in {"tpub", "xpub", "tprv", "xprv"}

\* Regex::captures_iter of the key pattern: every key of the text, in order
ScanKeys(desc) ==
    LET Texts(toks) == [i \in 1..Len(toks) |-> <<toks[i]>>]
    IN  Texts(SelectSeq(desc, IsScannedKeyTok))

\* collect::<Result<Vec<Keystore>, _>>: the keystores, or the first error
RECURSIVE CollectKeystores(_, _)
CollectKeystores(kind, keys) ==
    IF keys = <<>> THEN Ok(<<>>)
    ELSE Try(Keystore_new(kind, keys[1]),
             LAMBDA k : Try(CollectKeystores(kind, Tail(keys)),
                            LAMBDA rest : Ok(<<k>> \o rest)))

\* ElectrumWalletFile::from_descriptor_multisig
from_descriptor_multisig(desc) ==
    LET Build(x, keystores) ==
            IF Len(keystores) < 2
            THEN Err("MultisigFewSigners", <<>>)
            ELSE Ok([addresses |-> Addresses_new,
                     keystores |-> keystores,
                     wallet_type |-> Multisig(DigitVal(x), Len(keystores) % 256)])
        Kind(k) == IF k = WSH THEN WSH
                   ELSE IF k = <<Tok("sh")>> THEN PKH
                   ELSE SH_WSH
        Parse(captures) ==
            IF captures = None
            THEN Err("UnknownDescriptorFormat", <<>>)
            ELSE Try(CollectKeystores(Kind(captures[1][1]), ScanKeys(desc)),
                     LAMBDA keystores : Build(captures[1][2], keystores))
    IN  Parse(MultiCaptures(desc))

\* ElectrumWalletFile::validate
validate(self) ==
    LET expected_keystores == IF self.wallet_type.tag = "Standard"
                              THEN 1
                              ELSE self.wallet_type.y
    IN  IF Len(self.keystores) # expected_keystores
        THEN Err("WrongNumberOfKeyStores", <<Len(self.keystores), expected_keystores>>)
        ELSE IF self.wallet_type.tag = "Multisig"
                /\ self.wallet_type.x > expected_keystores
        THEN Err("NumberSignaturesKeyStores", <<self.wallet_type.x, expected_keystores>>)
        ELSE Ok(<<>>)

\* wallet.validate()?; Ok(wallet)
Validated(wallet_) == Try(validate(wallet_), LAMBDA unit : Ok(wallet_))

\* ElectrumWalletFile::from_descriptor
from_descriptor(desc) ==
    Try(IF Contains(desc, <<Tok("("), Tok("sortedmulti"), Tok("(")>>)
        THEN from_descriptor_multisig(desc)
        ELSE from_descriptor_singlesig(desc),
        Validated)

KeystoreLimit == 255

\* ElectrumWalletFile::new
ElectrumWalletFile_new(keystores, min_signatures) ==
    IF Len(keystores) = 1
    THEN Validated([addresses |-> Addresses_new,
                    wallet_type |-> Standard,
                    keystores |-> keystores])
    ELSE IF Len(keystores) >= KeystoreLimit
    THEN Err("TooManyKeyStores", <<Len(keystores)>>)
    ELSE Validated([addresses |-> Addresses_new,
                    wallet_type |-> Multisig(min_signatures, Len(keystores)),
                    keystores |-> keystores])

\* the decimal text of a number below 1000, as format!("{}", x) writes it
Decimal(n) ==
    IF n < 10 THEN <<DigitTok(n)>>
    ELSE IF n < 100 THEN <<DigitTok(n \div 10), DigitTok(n % 10)>>
    ELSE <<DigitTok(n \div 100), DigitTok((n \div 10) % 10), DigitTok(n % 10)>>

\* str::replace from position i on: every non-overlapping occurrence of from,
\* left to right
RECURSIVE ReplaceFrom(_, _, _, _)
ReplaceFrom(str, i, from, to) ==
    LET Cut(Hits) ==
            IF Hits = {} THEN SubSeq(str, i, Len(str))
            ELSE LET j == CHOOSE h \in Hits : \A g \in Hits : h <= g
                 IN  SubSeq(str, i, j - 1) \o to
                     \o ReplaceFrom(str, j + Len(from), from, to)
    IN  Cut({j \in i..Len(str) : MatchAt(str, j, from)})

\* a faulty replace: only the first occurrence of from is replaced
ReplaceFirst(str, from, to) ==
    LET Cut(Hits) ==
            IF Hits = {} THEN str
            ELSE LET j == CHOOSE h \in Hits : \A g \in Hits : h <= g
                 IN  SubSeq(str, 1, j - 1) \o to \o SubSeq(str, j + Len(from), Len(str))
    IN  Cut({j \in 1..Len(str) : MatchAt(str, j, from)})

\* str::replace
Replace(str, from, to) == ReplaceFrom(str, 1, from, to)

\* str.matches(c).count()
Count(str, c) == Cardinality({i \in 1..Len(str) : str[i] = Tok(c)})

\* collect::<Result<Vec<Box<dyn ElectrumExtendedKey>>, _>>
RECURSIVE CollectXkeys(_)
CollectXkeys(keystores) ==
    IF keystores = <<>> THEN Ok(<<>>)
    ELSE Try(get_xkey(keystores[1]),
             LAMBDA k : Try(CollectXkeys(Tail(keystores)),
                            LAMBDA rest : Ok(<<k>> \o rest)))

\* the fold of the multisig assembly: "," key "/0/*" for every key, in order
RECURSIVE FoldKeys(_, _)
FoldKeys(acc, xkeys) ==
    IF xkeys = <<>> THEN acc
    ELSE FoldKeys(acc \o <<Tok(",")>> \o xkey_str(xkeys[1]) \o Branch0, Tail(xkeys))

\* the Standard arm of ElectrumWalletFile::to_descriptors
to_descriptors_standard(self) ==
    LET Both(kind, xkey_) ==
            Ok(<< kind \o <<Tok("(")>> \o xkey_ \o Branch0 \o <<Tok(")")>>,
                  kind \o <<Tok("(")>> \o xkey_ \o Branch1 \o <<Tok(")")>> >>)
    IN  IF self.keystores = <<>> THEN Panic("index out of bounds")
        ELSE Try(get_xkey(self.keystores[1]),
                 LAMBDA exkey : Both(kind_of(exkey), xkey_str(exkey)))

\* a faulty assembly: the kind pkh is not written as sh
to_descriptors_multisig_pkh(self) ==
    LET Prefix(k) == k \o <<Tok("("), Tok("sortedmulti"), Tok("(")>>
                     \o Decimal(self.wallet_type.x)
        Both(desc) == Ok(<<desc, Replace(desc, Branch0, Branch1)>>)
        Close(desc) == Both(IF Count(desc, "(") > Count(desc, ")")
                            THEN desc \o <<Tok(")")>>
                            ELSE desc)
        Assemble(xkeys) ==
            IF xkeys = <<>> THEN Panic("index out of bounds")
            ELSE Close(FoldKeys(Prefix(kind_of(xkeys[1])), xkeys) \o <<Tok(")"), Tok(")")>>)
    IN  Try(CollectXkeys(self.keystores), Assemble)

\* the Multisig arm of ElectrumWalletFile::to_descriptors
to_descriptors_multisig(self) ==
    LET Prefix(k) == (IF k = PKH THEN <<Tok("sh")>> ELSE k)
                     \o <<Tok("("), Tok("sortedmulti"), Tok("(")>>
                     \o Decimal(self.wallet_type.x)
        Both(desc) == Ok(<<desc, Replace(desc, Branch0, Branch1)>>)
        Close(desc) == Both(IF Count(desc, "(") > Count(desc, ")")
                            THEN desc \o <<Tok(")")>>
                            ELSE desc)
        Assemble(xkeys) ==
            IF xkeys = <<>> THEN Panic("index out of bounds")
            ELSE Close(FoldKeys(Prefix(kind_of(xkeys[1])), xkeys) \o <<Tok(")"), Tok(")")>>)
    IN  Try(CollectXkeys(self.keystores), Assemble)

\* ElectrumWalletFile::to_descriptors
to_descriptors(self) ==
    IF self.wallet_type.tag = "Standard"
    THEN to_descriptors_standard(self)
    ELSE to_descriptors_multisig(self)

---------------------------------------------------------------------------
(* The stored document: a sequence of named fields, read and written in    *)
(* order.  A value is [t, addresses, str, ks]: t names which of the other  *)
(* three components is the value ("other": none of them).                  *)

\* a text of one-character tokens
Chars(seq) == [i \in 1..Len(seq) |-> Tok(seq[i])]

JsonNull == [change |-> None, receiving |-> None]

JsonNoKs == [type |-> None, xprv |-> None, xpub |-> None]

JsonAddresses(a) == [t |-> "addresses", addresses |-> a, str |-> <<>>, ks |-> JsonNoKs]

JsonString(str) == [t |-> "string", addresses |-> JsonNull, str |-> str, ks |-> JsonNoKs]

JsonKeystore(ks) == [t |-> "keystore", addresses |-> JsonNull, str |-> <<>>, ks |-> ks]

JsonOther == [t |-> "other", addresses |-> JsonNull, str |-> <<>>, ks |-> JsonNoKs]

Field(name, value) == [name |-> name, value |-> value]

NameAddresses == Chars(<<"a", "d", "d", "r", "e", "s", "s", "e", "s">>)

NameKeystore == Chars(<<"k", "e", "y", "s", "t", "o", "r", "e">>)

NameWalletType == Chars(<<"w", "a", "l", "l", "e", "t", "_", "t", "y", "p", "e">>)

TextStandard == Chars(<<"s", "t", "a", "n", "d", "a", "r", "d">>)

TextOf == Chars(<<"o", "f">>)

\* [a-z_\-0-9]
NameClass ==
    {Tok(c) : c \in {"a", "b", "c", "d", "e", "f", "g", "h", "i", "j", "k", "l", "m",
                     "n", "o", "p", "q", "r", "s", "t", "u", "v", "w", "x", "y", "z",
                     "_", "-"}} \cup Digits

\* the end of the longest run of tokens of class from position i on (i - 1: none)
RECURSIVE RunEnd(_, _, _)
RunEnd(str, i, class) ==
    IF i <= Len(str) /\ str[i] \in class THEN RunEnd(str, i + 1, class) ELSE i - 1

\* the number a text of digits denotes
RECURSIVE NumVal(_)
NumVal(digs) ==
    IF digs = <<>> THEN 0
    ELSE NumVal(SubSeq(digs, 1, Len(digs) - 1)) * 10 + DigitVal(digs[Len(digs)])

U8Max == 255

\* (\d+)(of)(\d+) at i: the ends of the two numbers, or <<>>
OfMatchAt(str, i) ==
    LET e1 == RunEnd(str, i, Digits)
        e2 == RunEnd(str, e1 + 3, Digits)
    IN  IF e1 >= i /\ MatchAt(str, e1 + 1, TextOf) /\ e2 >= e1 + 3
        THEN <<e1, e2>>
        ELSE <<>>

\* WalletType::from_str
WalletType_from_str(wallet_type) ==
    LET Hits == {i \in 1..Len(wallet_type) :
                    \/ MatchAt(wallet_type, i, TextStandard)
                    \/ OfMatchAt(wallet_type, i) # <<>>}
    IN  IF Hits = {} THEN Err("UnknownWalletType", wallet_type)
        ELSE LET i == CHOOSE h \in Hits : \A g \in Hits : h <= g
             IN  IF MatchAt(wallet_type, i, TextStandard) THEN Ok(Standard)
                 ELSE LET e == OfMatchAt(wallet_type, i)
                          x == NumVal(SubSeq(wallet_type, i, e[1]))
                          y == NumVal(SubSeq(wallet_type, e[1] + 3, e[2]))
                      IN  IF x > U8Max \/ y > U8Max
                          THEN Panic("ParseIntError")
                          ELSE Ok(Multisig(x, y))

\* a faulty writing: the total before the threshold
WalletType_serialize_swapped(self) ==
    IF self.tag = "Standard" THEN TextStandard
    ELSE Decimal(self.y) \o TextOf \o Decimal(self.x)

\* impl Serialize for WalletType
WalletType_serialize(self) ==
    IF self.tag = "Standard" THEN TextStandard
    ELSE Decimal(self.x) \o TextOf \o Decimal(self.y)

\* (x)(\d+)(/) at i
XFieldMatchAt(str, i) ==
    LET e == RunEnd(str, i + 1, Digits)
    IN  /\ MatchAt(str, i, <<Tok("x")>>)
        /\ e >= i + 1
        /\ MatchAt(str, e + 1, <<Tok("/")>>)

\* FieldVisitor::visit_str: Regex::captures of (x)(\d+)(/)|([a-z_\-0-9]+),
\* the leftmost match with the first alternative preferred
visit_str(value) ==
    LET Hits == {i \in 1..Len(value) :
                    XFieldMatchAt(value, i) \/ value[i] \in NameClass}
    IN  IF Hits = {} THEN "Ignore"
        ELSE LET i == CHOOSE h \in Hits : \A g \in Hits : h <= g
                 word == SubSeq(value, i, RunEnd(value, i, NameClass))
             IN  IF XFieldMatchAt(value, i) THEN "Keyst"
                 ELSE IF word = NameKeystore THEN "Keyst"
                 ELSE IF word = NameAddresses THEN "Addrs"
                 ELSE IF word = NameWalletType THEN "WalTyp"
                 ELSE "Ignore"

\* a faulty reading: a list that is missing is taken for an empty one
Addresses_deserialize_defaulting(v) ==
    IF v.t # "addresses" THEN Err("Serde", <<>>)
    ELSE Ok([change |-> IF v.addresses.change = None
                        THEN <<>> ELSE v.addresses.change[1],
             receiving |-> IF v.addresses.receiving = None
                           THEN <<>> ELSE v.addresses.receiving[1]])

\* #[derive(Deserialize)] for Addresses: both lists are required
Addresses_deserialize(v) ==
    IF v.t # "addresses" THEN Err("Serde", <<>>)
    ELSE IF v.addresses.change = None THEN Err("SerdeMissingField", <<Tok("change")>>)
    ELSE IF v.addresses.receiving = None THEN Err("SerdeMissingField", <<Tok("receiving")>>)
    ELSE Ok([change |-> v.addresses.change[1], receiving |-> v.addresses.receiving[1]])

\* #[derive(Deserialize)] for Keystore: type has a default, xprv is optional
Keystore_deserialize(v) ==
    IF v.t # "keystore" THEN Err("Serde", <<>>)
    ELSE IF v.ks.xpub = None THEN Err("SerdeMissingField", <<Tok("xpub")>>)
    ELSE Ok([type |-> IF v.ks.type = None THEN default_type ELSE v.ks.type[1],
             xprv |-> v.ks.xprv,
             xpub |-> v.ks.xpub[1]])

\* impl Deserialize for WalletType
WalletType_deserialize(v) ==
    IF v.t # "string" THEN Err("Serde", <<>>) ELSE WalletType_from_str(v.str)

\* the loop of ElectrumWalletFileVisitor::visit_map over the fields left
RECURSIVE VisitFields(_, _)
VisitFields(map, acc) ==
    LET Step(key, v) ==
            IF key = "Addrs"
            THEN Try(Addresses_deserialize(v),
                     LAMBDA a : VisitFields(Tail(map), [acc EXCEPT !.addresses = a]))
            ELSE IF key = "Keyst"
            THEN Try(Keystore_deserialize(v),
                     LAMBDA k : VisitFields(Tail(map),
                                            [acc EXCEPT !.keystores = @ \o <<k>>]))
            ELSE IF key = "WalTyp"
            THEN Try(WalletType_deserialize(v),
                     LAMBDA w : VisitFields(Tail(map), [acc EXCEPT !.wallet_type = w]))
            ELSE VisitFields(Tail(map), acc)
    IN  IF map = <<>> THEN Ok(acc)
        ELSE Step(visit_str(map[1].name), map[1].value)

\* ElectrumWalletFileVisitor::visit_map
visit_map(map) ==
    Try(VisitFields(map, [addresses |-> Addresses_new,
                          keystores |-> <<>>,
                          wallet_type |-> Standard]),
        Validated)

\* ElectrumWalletFile::from_file on a file holding the document
from_file(doc) == visit_map(doc)

\* #[derive(Serialize)] for Keystore
Keystore_serialize(ks) ==
    JsonKeystore([type |-> Some(ks.type), xprv |-> ks.xprv, xpub |-> Some(ks.xpub)])

\* a faulty writing: the keystores of a multisig wallet numbered from 0
serialize_from_zero(self) ==
    << Field(NameAddresses,
             JsonAddresses([change |-> Some(self.addresses.change),
                            receiving |-> Some(self.addresses.receiving)])),
       Field(NameWalletType, JsonString(WalletType_serialize(self.wallet_type))) >>
    \o (IF self.wallet_type.tag = "Standard"
        THEN <<Field(NameKeystore, Keystore_serialize(self.keystores[1]))>>
        ELSE [i \in 1..Len(self.keystores) |->
                 Field(<<Tok("x")>> \o Decimal(i - 1) \o <<Tok("/")>>,
                       Keystore_serialize(self.keystores[i]))])

\* impl Serialize for ElectrumWalletFile
serialize(self) ==
    << Field(NameAddresses,
             JsonAddresses([change |-> Some(self.addresses.change),
                            receiving |-> Some(self.addresses.receiving)])),
       Field(NameWalletType, JsonString(WalletType_serialize(self.wallet_type))) >>
    \o (IF self.wallet_type.tag = "Standard"
        THEN <<Field(NameKeystore, Keystore_serialize(self.keystores[1]))>>
        ELSE [i \in 1..Len(self.keystores) |->
                 Field(<<Tok("x")>> \o Decimal(i) \o <<Tok("/")>>,
                       Keystore_serialize(self.keystores[i]))])

---------------------------------------------------------------------------
(* The inputs of the codec operations *)

Depths == {0, 255}

FP1 == <<222, 173, 190, 239>>

ChildBytes == {<<0, 0, 0, 0>>, <<128, 0, 0, 1>>, <<255, 255, 255, 255>>}

CC1 == [i \in 1..32 |-> 100 + i]

SK1 == [i \in 1..32 |-> i]

SK2 == [i \in 1..32 |-> 200 - i]

ZeroScalar == [i \in 1..32 |-> 0]

BadPoint == <<4>> \o [i \in 1..32 |-> i]

\* bytes 45..77 of a payload: a point, or a pad byte and a scalar
KeyMaterials ==
    {PublicKey_from_secret(SK1), PublicKey_from_secret(SK2), BadPoint}
    \cup {<<pad>> \o sk : pad \in {0, 7}, sk \in {SK1, SK2, ZeroScalar}}

UnknownVersion == <<1, 2, 3, 4>>

Versions ==
    {AllSentinels[i].prefix : i \in 1..Len(AllSentinels)} \cup {UnknownVersion}

Payloads ==
    {v \o <<dp>> \o FP1 \o cb \o CC1 \o km :
        v \in Versions, dp \in Depths, cb \in ChildBytes, km \in KeyMaterials}

APayload == <<4, 95, 28, 246>> \o <<3>> \o FP1 \o <<0, 0, 0, 5>> \o CC1
            \o PublicKey_from_secret(SK1)

\* a payload that is wrong throughout: no version of a table and no key
BadPayload == UnknownVersion \o <<0>> \o FP1 \o <<0, 0, 0, 0>> \o CC1 \o BadPoint

\* the strings handed to the two from_str: every well-checksummed payload,
\* payloads of 77 and of 79 bytes, wrong checksums, and text that is not base58
VendorStrings ==
    {encode_check(p) : p \in Payloads}
    \cup { encode_check(SubSeq(APayload, 1, 77)),
           encode_check(SubSeq(BadPayload, 1, 77)),
           encode_check(BadPayload \o <<0>>),
           << [s |-> "vpub", d |-> APayload \o <<0, 0, 0, 0>>] >>,
           << [s |-> "b58", d |-> SubSeq(BadPayload, 1, 77) \o <<0, 0, 0, 0>>] >>,
           << Tok("wpkh"), Tok("(") >> }

Kinds == {PKH, SH_WPKH, SH_WSH, WPKH, WSH}

\* a kind outside the five script kinds
KindTr == <<Tok("tr")>>

Xpubs ==
    {[network |-> n, depth |-> dp, parent_fingerprint |-> FP1,
      child_number |-> ChildNumber_from_be_bytes(cb), chain_code |-> CC1,
      public_key |-> PublicKey_from_secret(sk)] :
        n \in {"Main", "Test"}, dp \in Depths, cb \in ChildBytes, sk \in {SK1, SK2}}

Xprvs ==
    {[network |-> n, depth |-> dp, parent_fingerprint |-> FP1,
      child_number |-> ChildNumber_from_be_bytes(cb), chain_code |-> CC1,
      private_key |-> [compressed |-> c, network |-> n, key |-> sk]] :
        n \in {"Bitcoin", "Testnet", "Regtest"}, dp \in Depths, cb \in ChildBytes,
        sk \in {SK1, SK2}, c \in BOOLEAN}

NoKeys == [pub |-> None, prv |-> None]

---------------------------------------------------------------------------
(* The inputs of the wallet operations *)

\* the parameters no input was built from
NoArg == [form |-> "none", kind |-> <<>>, t |-> 0, keys |-> <<>>, closing |-> 0,
          ks |-> <<>>, wt |-> Standard]

StdXpubA ==
    [network |-> "Test", depth |-> 3, parent_fingerprint |-> FP1,
     child_number |-> ChildNumber_from_be_bytes(<<128, 0, 0, 1>>), chain_code |-> CC1,
     public_key |-> PublicKey_from_secret(SK1)]

StdXprvB ==
    [network |-> "Testnet", depth |-> 0, parent_fingerprint |-> FP1,
     child_number |-> ChildNumber_from_be_bytes(<<0, 0, 0, 0>>), chain_code |-> CC1,
     private_key |-> [compressed |-> TRUE, network |-> "Testnet", key |-> SK2]]

StdXpubC ==
    [network |-> "Main", depth |-> 1, parent_fingerprint |-> FP1,
     child_number |-> ChildNumber_from_be_bytes(<<0, 0, 0, 5>>), chain_code |-> CC1,
     public_key |-> PublicKey_from_secret(SK2)]

\* the standard keys descriptors are written with: a tpub, a tprv, an xpub
KeyPool ==
    << Xpub_to_string(StdXpubA), ExtendedPrivKey_to_string(StdXprvB),
       Xpub_to_string(StdXpubC) >>

\* a tpub whose checksum is wrong
BadChecksumKey == << [s |-> "tpub", d |-> APayload \o <<0, 0, 0, 0>>] >>

\* a key in a vendor encoding, which no descriptor pattern takes for a key
VendorKey == encode_check(APayload)

\* n closing parentheses
Parens(n) == [i \in 1..n |-> Tok(")")]

\* the sequences over S of length lo to hi
Seqs(S, lo, hi) == UNION {[1..k -> S] : k \in lo..hi}

\* the keys of the pool taken in turn, n of them
Cyclic(pool, n) == [i \in 1..n |-> pool[((i - 1) % Len(pool)) + 1]]

\* whether a kind is one of the two wrapped kinds
IsWrapped(kind) == kind \in {SH_WPKH, SH_WSH}

\* "," key "/0/*" for every key, in order
RECURSIVE JoinKeys(_)
JoinKeys(keys) ==
    IF keys = <<>> THEN <<>>
    ELSE <<Tok(",")>> \o keys[1] \o Branch0 \o JoinKeys(Tail(keys))

\* single-sig descriptors: every kind and a kind that is none, every key and
\* two texts that are no key, with none to two closing parentheses
SingleArgs ==
    {[form |-> "single", kind |-> k, t |-> 0, keys |-> <<key>>, closing |-> c,
      ks |-> <<>>, wt |-> Standard] :
        k \in Kinds \cup {KindTr},
        key \in {KeyPool[i] : i \in 1..Len(KeyPool)} \cup {BadChecksumKey, VendorKey},
        c \in 0..2}

\* multisig descriptors: thresholds from 0 to beyond the number of keys, key
\* lists of every content up to MaxFreeSigners and of every length up to MaxSigners
MultiArgs ==
    {[form |-> "multi", kind |-> k, t |-> t, keys |-> keys,
      closing |-> IF IsWrapped(k) THEN 3 ELSE 2, ks |-> <<>>, wt |-> Standard] :
        k \in {MultiKinds[i] : i \in 1..Len(MultiKinds)},
        t \in 0..(MaxSigners + 1),
        keys \in Seqs({KeyPool[i] : i \in 1..Len(KeyPool)}, 1, MaxFreeSigners)
                 \cup {Cyclic(KeyPool, n) : n \in (MaxFreeSigners + 1)..MaxSigners}}

\* the text of the descriptor the parameters describe
DescriptorOf(a) ==
    IF a.form = "single"
    THEN a.kind \o <<Tok("(")>> \o a.keys[1] \o Branch0 \o Parens(a.closing)
    ELSE a.kind \o <<Tok("("), Tok("sortedmulti"), Tok("(")>> \o Decimal(a.t)
         \o JoinKeys(a.keys) \o Parens(a.closing)

\* a keystore with a private key and the public key derived from it
KsPrivate == Keystore_new(WPKH, KeyPool[2]).val

\* a keystore with a public key only, of a wrapped kind
KsPublic == Keystore_new(SH_WPKH, KeyPool[1]).val

\* a keystore of kind wsh
KsWsh == Keystore_new(WSH, KeyPool[3]).val

\* a keystore whose public key is not the one its private key derives
KsMismatch == [KsPrivate EXCEPT !.xpub = Keystore_new(WPKH, KeyPool[1]).val.xpub]

\* the keystores ElectrumWalletFile::new is handed
NewPool == {KsPrivate, KsPublic, KsWsh}

\* the keystores a document may hold
DocPool == {KsPrivate, KsPublic, KsMismatch}

\* the arguments of ElectrumWalletFile::new: every list up to MaxFreeSigners
\* keystores and one of KeystoreLimit, with every threshold up to MaxMinSignatures
NewArgs ==
    {[form |-> "new", kind |-> <<>>, t |-> m, keys |-> <<>>, closing |-> 0,
      ks |-> ks, wt |-> Standard] :
        m \in 0..MaxMinSignatures,
        ks \in Seqs(NewPool, 0, MaxFreeSigners)
               \cup {[i \in 1..KeystoreLimit |-> KsPublic]}}

\* the wallet types a document may name: none, "standard", every "<x>of<y>"
\* within the bounds, and one whose threshold does not fit a byte
DocTypes ==
    {[tag |-> "absent", x |-> 0, y |-> 0], Standard, Multisig(300, 2)}
    \cup {Multisig(x, y) : x \in 0..MaxMinSignatures, y \in 0..MaxDocKeystores}

DocArgs ==
    {[form |-> "doc", kind |-> <<>>, t |-> 0, keys |-> <<>>, closing |-> 0,
      ks |-> ks, wt |-> wt] :
        wt \in DocTypes, ks \in Seqs(DocPool, 0, MaxDocKeystores)}

\* the document the parameters describe: addresses, the wallet type if one is
\* named, and the keystores under "keystore" or under "x1/", "x2/", ...
DocumentOf(a) ==
    << Field(NameAddresses, JsonAddresses([change |-> Some(<<>>), receiving |-> Some(<<>>)])) >>
    \o (IF a.wt.tag = "absent" THEN <<>>
        ELSE <<Field(NameWalletType, JsonString(WalletType_serialize(a.wt)))>>)
    \o [i \in 1..Len(a.ks) |->
           Field(IF a.wt.tag = "Multisig"
                 THEN <<Tok("x")>> \o Decimal(i) \o <<Tok("/")>>
                 ELSE NameKeystore,
                 Keystore_serialize(a.ks[i]))]

\* names of top-level fields that are none of addresses, wallet_type, keystore
\* and x<i>/: fields Electrum writes, and names that hold one of the four
ExtraNames ==
    { Chars(<<"a", "d", "d", "r", "_", "h", "i", "s", "t", "o", "r", "y">>),
      Chars(<<"s", "e", "e", "d", "_", "v", "e", "r", "s", "i", "o", "n">>),
      Chars(<<"w", "i", "n", "p", "o", "s", "-", "q", "t">>),
      Chars(<<"L", "A", "B", "E", "L", "S">>),
      Chars(<<"x", "1">>),
      Chars(<<"k", "e", "y", "s", "t", "o", "r", "e", "s">>),
      Chars(<<"m", "y", " ">>) \o NameKeystore,
      NameKeystore \o Chars(<<".", "b", "a", "k">>),
      Chars(<<"x", "1", "/", "o", "l", "d">>),
      Chars(<<"X">>) \o NameWalletType,
      NameAddresses \o Chars(<<"!">>) }

\* the values an extra field may hold
ExtraValues ==
    { JsonOther,
      JsonKeystore([type |-> None, xprv |-> None, xpub |-> Some(KsWsh.xpub)]),
      JsonString(WalletType_serialize(Multisig(1, 2))) }

\* the documents an extra field is added to: no or one keystore, under no
\* wallet type, "standard", "1of1" and "1of2"
ExtraDocArgs ==
    {a \in DocArgs : /\ Len(a.ks) <= 1
                     /\ a.wt \in {[tag |-> "absent", x |-> 0, y |-> 0], Standard,
                                  Multisig(1, 1), Multisig(1, 2)}}

\* a document with a field added in front (at = 0) or at the end
WithField(doc, at, field) == IF at = 0 THEN <<field>> \o doc ELSE doc \o <<field>>

\* the texts handed to WalletType::from_str: "standard", "<x>of<y>" with
\* numbers that fit a byte and numbers that do not, and texts that are
\* neither but hold one of them, or part of one
TypeStrings ==
    { TextStandard, <<>>, TextOf,
      Chars(<<"n", "o", "n">>) \o TextStandard,
      TextStandard \o Chars(<<"2">>),
      Chars(<<"S", "t", "a", "n", "d", "a", "r", "d">>),
      Chars(<<"m", "u", "l", "t", "i", "s", "i", "g">>),
      Chars(<<"2", " ", "o", "f", " ", "3">>),
      Chars(<<"2", "O", "F", "3">>),
      Chars(<<"-", "1", "o", "f", "2">>),
      Chars(<<"2", "o", "f", "3", "x">>),
      Chars(<<"2", "o", "f">>),
      Chars(<<"o", "f", "3">>),
      Chars(<<"0", "2", "o", "f", "0", "3">>) }
    \cup {Decimal(x) \o TextOf \o Decimal(y) :
              x \in {0, 2, 10, U8Max, U8Max + 1, 300},
              y \in {0, 3, 12, U8Max, U8Max + 1}}

\* "imported", the wallet type and the keystore type of a wallet of imported
\* addresses or private keys
TextImported == Chars(<<"i", "m", "p", "o", "r", "t", "e", "d">>)

\* the addresses object of such a wallet: a map from each address to its
\* data, with no change and no receiving list
ImportedAddresses == JsonAddresses([change |-> None, receiving |-> None])

\* the documents of wallets with imported addresses and with imported private
\* keys, and the documents of the other wallets with their addresses object
\* replaced by one of that shape; the fields in the order Electrum writes
\* them, addresses first
ImportedDocuments ==
    { << Field(NameAddresses, ImportedAddresses),
         Field(NameWalletType, JsonString(TextImported)) >>,
      << Field(NameAddresses, ImportedAddresses),
         Field(NameKeystore,
               JsonKeystore([type |-> Some(TextImported), xprv |-> None, xpub |-> None])),
         Field(NameWalletType, JsonString(TextImported)) >> }
    \cup {<<Field(NameAddresses, ImportedAddresses)>> \o Tail(DocumentOf(a)) :
              a \in ExtraDocArgs}

---------------------------------------------------------------------------
(* The state machine: one action per library operation.  A run takes its  *)
(* input in its first step and then applies operations to what it holds.  *)

\* the orders n fields can stand in: the permutations of 1..n
Orders(n) == {o \in [1..n -> 1..n] : \A i, j \in 1..n : i # j => o[i] # o[j]}

\* multisig documents of 1 to MaxReordered keystores, of the kinds wpkh,
\* sh(wpkh and wsh; ks[i] is the keystore stored under x<i>/
ReorderedArgs ==
    {[form |-> "reordered", kind |-> <<>>, t |-> 0, keys |-> <<>>, closing |-> 0,
      ks |-> ks, wt |-> Multisig(x, Len(ks))] :
        x \in 1..2, ks \in Seqs(DocPool \cup {KsWsh}, 1, MaxReordered)}

\* the document of the parameters with its x<i>/ fields in the given order
ReorderedDocument(a, order) ==
    << Field(NameAddresses, JsonAddresses([change |-> Some(<<>>), receiving |-> Some(<<>>)])),
       Field(NameWalletType, JsonString(WalletType_serialize(a.wt))) >>
    \o [f \in 1..Len(a.ks) |->
           Field(<<Tok("x")>> \o Decimal(order[f]) \o <<Tok("/")>>,
                 Keystore_serialize(a.ks[order[f]]))]

StatusOf(r) == IF r.ok THEN StatusOk ELSE r.err

Init ==
    /\ op = "init"
    /\ status = StatusOk
    /\ xkey = NoKeys
    /\ prevXkey = NoKeys
    /\ text = <<>>
    /\ out = <<>>
    /\ wallet = None
    /\ prevWallet = None
    /\ wsrc = "none"
    /\ file = None
    /\ arg = NoArg

\* ElectrumExtendedPubKey::from_str on a string of the caller
PubFromStr ==
    \E s \in VendorStrings :
        /\ op = "init"
        /\ LET r == ElectrumExtendedPubKey_from_str(s)
           IN  /\ op' = "pub_from_str"
               /\ status' = StatusOf(r)
               /\ xkey' = [pub |-> IF r.ok THEN Some(r.val) ELSE None, prv |-> None]
               /\ prevXkey' = NoKeys
               /\ text' = s
               /\ out' = <<>>
               /\ wallet' = None /\ prevWallet' = None /\ wsrc' = "none"
               /\ file' = None /\ arg' = NoArg

\* ElectrumExtendedPrivKey::from_str on a string of the caller
PrivFromStr ==
    \E s \in VendorStrings :
        /\ op = "init"
        /\ LET r == ElectrumExtendedPrivKey_from_str(s)
           IN  /\ op' = "priv_from_str"
               /\ status' = StatusOf(r)
               /\ xkey' = [pub |-> None, prv |-> IF r.ok THEN Some(r.val) ELSE None]
               /\ prevXkey' = NoKeys
               /\ text' = s
               /\ out' = <<>>
               /\ wallet' = None /\ prevWallet' = None /\ wsrc' = "none"
               /\ file' = None /\ arg' = NoArg

\* ElectrumExtendedPubKey::new
PubNew ==
    \E xpub \in Xpubs, kind \in Kinds \cup {KindTr} :
        /\ op = "init"
        /\ op' = "pub_new"
        /\ status' = StatusOk
        /\ xkey' = [pub |-> Some(ElectrumExtendedPubKey_new(xpub, kind)), prv |-> None]
        /\ prevXkey' = NoKeys
        /\ text' = <<>>
        /\ out' = <<>>
        /\ wallet' = None /\ prevWallet' = None /\ wsrc' = "none"
               /\ file' = None /\ arg' = NoArg

\* ElectrumExtendedPrivKey::new
PrivNew ==
    \E xprv \in Xprvs, kind \in Kinds \cup {KindTr} :
        /\ op = "init"
        /\ op' = "priv_new"
        /\ status' = StatusOk
        /\ xkey' = [pub |-> None, prv |-> Some(ElectrumExtendedPrivKey_new(xprv, kind))]
        /\ prevXkey' = NoKeys
        /\ text' = <<>>
        /\ out' = <<>>
        /\ wallet' = None /\ prevWallet' = None /\ wsrc' = "none"
               /\ file' = None /\ arg' = NoArg

KeyOps == {"pub_from_str", "priv_from_str", "pub_new", "priv_new",
           "pub_from_str_out", "priv_from_str_out"}

\* ElectrumExtendedPubKey::electrum_xpub on the key held
ElectrumXpub ==
    /\ op \in KeyOps /\ xkey.pub # None
    /\ LET r == electrum_xpub(xkey.pub[1])
       IN  /\ op' = "electrum_xpub"
           /\ status' = StatusOf(r)
           /\ out' = IF r.ok THEN <<r.val>> ELSE <<>>
    /\ UNCHANGED <<xkey, prevXkey, text, wallet, prevWallet, wsrc, file, arg>>

\* ElectrumExtendedPrivKey::electrum_xprv on the key held
ElectrumXprv ==
    /\ op \in KeyOps /\ xkey.prv # None
    /\ LET r == electrum_xprv(xkey.prv[1])
       IN  /\ op' = "electrum_xprv"
           /\ status' = StatusOf(r)
           /\ out' = IF r.ok THEN <<r.val>> ELSE <<>>
    /\ UNCHANGED <<xkey, prevXkey, text, wallet, prevWallet, wsrc, file, arg>>

\* ElectrumExtendedPubKey::from_str on the string electrum_xpub returned
PubFromStrOut ==
    /\ op = "electrum_xpub" /\ status.tag = "ok"
    /\ LET r == ElectrumExtendedPubKey_from_str(out[1])
       IN  /\ op' = "pub_from_str_out"
           /\ status' = StatusOf(r)
           /\ xkey' = [pub |-> IF r.ok THEN Some(r.val) ELSE None, prv |-> None]
           /\ prevXkey' = xkey
           /\ text' = out[1]
           /\ out' = <<>>
    /\ UNCHANGED <<wallet, prevWallet, wsrc, file, arg>>

\* ElectrumExtendedPrivKey::from_str on the string electrum_xprv returned
PrivFromStrOut ==
    /\ op = "electrum_xprv" /\ status.tag = "ok"
    /\ LET r == ElectrumExtendedPrivKey_from_str(out[1])
       IN  /\ op' = "priv_from_str_out"
           /\ status' = StatusOf(r)
           /\ xkey' = [pub |-> None, prv |-> IF r.ok THEN Some(r.val) ELSE None]
           /\ prevXkey' = xkey
           /\ text' = out[1]
           /\ out' = <<>>
    /\ UNCHANGED <<wallet, prevWallet, wsrc, file, arg>>

\* ElectrumExtendedPubKey::to_descriptors on the key held
PubToDescriptors ==
    /\ op \in KeyOps /\ xkey.pub # None
    /\ op' = "pub_to_descriptors"
    /\ status' = StatusOk
    /\ out' = pub_to_descriptors(xkey.pub[1])
    /\ UNCHANGED <<xkey, prevXkey, text, wallet, prevWallet, wsrc, file, arg>>

\* ElectrumExtendedPrivKey::to_descriptors on the key held
PrivToDescriptors ==
    /\ op \in KeyOps /\ xkey.prv # None
    /\ op' = "priv_to_descriptors"
    /\ status' = StatusOk
    /\ out' = priv_to_descriptors(xkey.prv[1])
    /\ UNCHANGED <<xkey, prevXkey, text, wallet, prevWallet, wsrc, file, arg>>

\* the optional value of a result
ValOf(r) == IF r.ok THEN Some(r.val) ELSE None

\* ElectrumWalletFile::from_descriptor on a descriptor of the caller
FromDescriptor ==
    /\ op = "init"
    /\ \E a \in SingleArgs \cup MultiArgs :
        \E desc \in {DescriptorOf(a)} :
            \E r \in {from_descriptor(desc)} :
                /\ op' = "from_descriptor"
                /\ status' = StatusOf(r)
                /\ wallet' = ValOf(r)
                /\ text' = desc
                /\ arg' = a
                /\ wsrc' = "descriptor"
                /\ out' = <<>>
                /\ UNCHANGED <<xkey, prevXkey, prevWallet, file>>

\* ElectrumWalletFile::new on keystores of the caller
WalletNew ==
    /\ op = "init"
    /\ \E a \in NewArgs :
        \E r \in {ElectrumWalletFile_new(a.ks, a.t)} :
            /\ op' = "new"
            /\ status' = StatusOf(r)
            /\ wallet' = ValOf(r)
            /\ arg' = a
            /\ wsrc' = "new"
            /\ out' = <<>>
            /\ UNCHANGED <<xkey, prevXkey, prevWallet, text, file>>

\* ElectrumWalletFile::from_file on a document of the caller
FromFile ==
    /\ op = "init"
    /\ \E a \in DocArgs :
        \E doc \in {DocumentOf(a)} :
            \E r \in {from_file(doc)} :
                /\ op' = "from_file"
                /\ status' = StatusOf(r)
                /\ wallet' = ValOf(r)
                /\ file' = Some(doc)
                /\ arg' = a
                /\ wsrc' = "file"
                /\ out' = <<>>
                /\ UNCHANGED <<xkey, prevXkey, prevWallet, text>>

\* ElectrumWalletFile::from_file on two documents of the caller that differ in
\* one field only, of a name outside addresses, wallet_type, keystore, x<i>/:
\* the wallet of the document without it is kept in prevWallet, the name in text
FromFileExtra ==
    /\ op = "init"
    /\ \E a \in ExtraDocArgs, name \in ExtraNames, value \in ExtraValues, at \in 0..1 :
        \E doc \in {WithField(DocumentOf(a), at, Field(name, value))} :
            \E r \in {from_file(doc)}, r0 \in {from_file(DocumentOf(a))} :
                /\ op' = "from_file_extra"
                /\ status' = StatusOf(r)
                /\ wallet' = ValOf(r)
                /\ prevWallet' = ValOf(r0)
                /\ file' = Some(doc)
                /\ text' = name
                /\ arg' = a
                /\ wsrc' = "file"
                /\ out' = <<>>
                /\ UNCHANGED <<xkey, prevXkey>>

\* WalletType::from_str on a text of the caller; out holds the type returned
WalletTypeFromStr ==
    /\ op = "init"
    /\ \E s \in TypeStrings :
           \E r \in {WalletType_from_str(s)} :
               /\ op' = "wallet_type_from_str"
               /\ status' = StatusOf(r)
               /\ out' = IF r.ok THEN <<r.val>> ELSE <<>>
               /\ text' = s
               /\ UNCHANGED <<xkey, prevXkey, wallet, prevWallet, wsrc, file, arg>>

\* ElectrumWalletFile::from_file on the document of a wallet with imported
\* addresses or private keys
FromFileImported ==
    /\ op = "init"
    /\ \E doc \in ImportedDocuments :
           \E r \in {from_file(doc)} :
               /\ op' = "from_file_imported"
               /\ status' = StatusOf(r)
               /\ wallet' = ValOf(r)
               /\ file' = Some(doc)
               /\ wsrc' = "file"
               /\ out' = <<>>
               /\ UNCHANGED <<xkey, prevXkey, prevWallet, text, arg>>

\* ElectrumWalletFile::from_file on a multisig document whose x<i>/ fields
\* stand in any order
FromFileReordered ==
    /\ op = "init"
    /\ \E a \in ReorderedArgs :
        \E order \in Orders(Len(a.ks)) :
            \E doc \in {ReorderedDocument(a, order)} :
                \E r \in {from_file(doc)} :
                    /\ op' = "from_file_reordered"
                    /\ status' = StatusOf(r)
                    /\ wallet' = ValOf(r)
                    /\ file' = Some(doc)
                    /\ arg' = a
                    /\ wsrc' = "file"
                    /\ out' = <<>>
                    /\ UNCHANGED <<xkey, prevXkey, prevWallet, text>>

WalletOps == {"from_descriptor", "new", "from_file", "from_file_stored",
              "from_file_reordered"}

\* ElectrumWalletFile::to_descriptors on the wallet held
ToDescriptors ==
    /\ op \in WalletOps /\ wallet # None
    /\ \E r \in {to_descriptors(wallet[1])} :
           /\ op' = "to_descriptors"
           /\ status' = StatusOf(r)
           /\ out' = IF r.ok THEN r.val ELSE <<>>
    /\ UNCHANGED <<xkey, prevXkey, text, wallet, prevWallet, wsrc, file, arg>>

\* ElectrumWalletFile::to_file on the wallet held
ToFile ==
    /\ op \in WalletOps \ {"from_file_stored"} /\ wallet # None
    /\ op' = "to_file"
    /\ status' = StatusOk
    /\ file' = Some(serialize(wallet[1]))
    /\ out' = <<>>
    /\ UNCHANGED <<xkey, prevXkey, text, wallet, prevWallet, wsrc, arg>>

\* ElectrumWalletFile::from_file on the document to_file wrote
FromFileStored ==
    /\ op = "to_file"
    /\ \E r \in {from_file(file[1])} :
           /\ op' = "from_file_stored"
           /\ status' = StatusOf(r)
           /\ wallet' = ValOf(r)
           /\ prevWallet' = wallet
           /\ out' = <<>>
    /\ UNCHANGED <<xkey, prevXkey, text, wsrc, file, arg>>

\* ElectrumWalletFile::from_descriptor on the first descriptor to_descriptors
\* returned; the wallet the descriptor was built from is kept in prevWallet
FromDescriptorOut ==
    /\ op = "to_descriptors" /\ status.tag = "ok"
    /\ \E r \in {from_descriptor(out[1])} :
           /\ op' = "from_descriptor_out"
           /\ status' = StatusOf(r)
           /\ wallet' = ValOf(r)
           /\ prevWallet' = wallet
           /\ text' = out[1]
           /\ out' = <<>>
    /\ UNCHANGED <<xkey, prevXkey, wsrc, file, arg>>

---------------------------------------------------------------------------
(* The command-line program.  op is the position in main, arg.keys the     *)
(* arguments after the program name, text the first of them, file the file *)
(* at the path it names (None: no such file), status and out the value of  *)
(* `descriptor`, wsrc the stage that value comes from.                     *)

\* "You must specify an extended public or private key or an electrum wallet
\* file as first argument"
err_msg == Err("GenericBorrow", <<>>)

\* arguments: a vendor private key, a vendor public key, a key of unknown
\* version, a string with a wrong checksum, and a text that is no base58
MainArguments ==
    { electrum_xprv(ElectrumExtendedPrivKey_new(StdXprvB, WPKH)).val,
      VendorKey,
      encode_check(BadPayload),
      BadChecksumKey,
      Chars(<<"w", ".", "j", "s", "o", "n">>) }

\* what is at the path of the first argument: nothing, or a document of no or
\* one keystore under "standard", "1of1", "0of0" and "300of2"
MainFiles ==
    {None} \cup
    {Some(DocumentOf(a)) :
        a \in {b \in DocArgs : /\ Len(b.ks) <= 1
                                /\ b.wt \in {Standard, Multisig(1, 1), Multisig(0, 0),
                                             Multisig(300, 2)}}}

\* ElectrumExtendedPrivKey::from_str(&electrum_x).map(|e| e.to_descriptors())
main_priv(electrum_x) ==
    Try(ElectrumExtendedPrivKey_from_str(electrum_x),
        LAMBDA e : Ok(priv_to_descriptors(e)))

\* ElectrumExtendedPubKey::from_str(&electrum_x).map(|e| e.to_descriptors())
main_pub(electrum_x) ==
    Try(ElectrumExtendedPubKey_from_str(electrum_x),
        LAMBDA e : Ok(pub_to_descriptors(e)))

\* the closure of the wallet-file stage: canonicalize, from_file, to_descriptors
main_wallet_file(at_path) ==
    IF at_path = None THEN err_msg
    ELSE Try(from_file(at_path[1]), to_descriptors)

\* the process starts with its arguments
MainStart ==
    /\ op = "init"
    /\ \E argv \in Seqs(MainArguments, 0, 2), at_path \in MainFiles :
           /\ op' = "main_start"
           /\ arg' = [NoArg EXCEPT !.form = "main", !.keys = argv]
           /\ file' = at_path
    /\ UNCHANGED <<status, xkey, prevXkey, text, out, wallet, prevWallet, wsrc>>

\* args.next().ok_or_else(..)? without an argument: main returns the error
MainNoArgument ==
    /\ op = "main_start" /\ arg.keys = <<>>
    /\ op' = "main_exit"
    /\ status' = StatusOf(err_msg)
    /\ UNCHANGED <<xkey, prevXkey, text, out, wallet, prevWallet, wsrc, file, arg>>

\* the first argument is decoded as a vendor private key
MainPriv ==
    /\ op = "main_start" /\ arg.keys # <<>>
    /\ \E r \in {main_priv(arg.keys[1])} :
           /\ op' = "main_priv"
           /\ text' = arg.keys[1]
           /\ status' = StatusOf(r)
           /\ out' = IF r.ok THEN r.val ELSE <<>>
           /\ wsrc' = "main_priv"
    /\ UNCHANGED <<xkey, prevXkey, wallet, prevWallet, file, arg>>

\* a faulty second stage: run whatever the first one returned
MainPub_always ==
    /\ op = "main_priv"
    /\ \E r \in {main_pub(text)} :
           /\ op' = "main_pub"
           /\ status' = StatusOf(r)
           /\ out' = IF r.ok THEN r.val ELSE <<>>
           /\ wsrc' = "main_pub"
    /\ UNCHANGED <<xkey, prevXkey, text, wallet, prevWallet, file, arg>>

\* .or_else(|_| ElectrumExtendedPubKey::from_str(..)..): on an error only
MainPub ==
    /\ op = "main_priv" /\ status.tag # "ok"
    /\ \E r \in {main_pub(text)} :
           /\ op' = "main_pub"
           /\ status' = StatusOf(r)
           /\ out' = IF r.ok THEN r.val ELSE <<>>
           /\ wsrc' = "main_pub"
    /\ UNCHANGED <<xkey, prevXkey, text, wallet, prevWallet, file, arg>>

\* descriptor.or_else(|_| { .. from_file .. to_descriptors }): on an error only
MainFile ==
    /\ op = "main_pub" /\ status.tag # "ok"
    /\ \E r \in {main_wallet_file(file)} :
           /\ op' = "main_file"
           /\ status' = StatusOf(r)
           /\ out' = IF r.ok THEN r.val ELSE <<>>
           /\ wsrc' = "main_file"
    /\ UNCHANGED <<xkey, prevXkey, text, wallet, prevWallet, file, arg>>

\* println!("{:?}", descriptor?); Ok(()): the value is printed, or main ends
\* with the error; out is what was printed
MainExit ==
    /\ \/ op \in {"main_priv", "main_pub"} /\ status.tag = "ok"
       \/ op = "main_file"
    /\ op' = "main_exit"
    /\ UNCHANGED <<status, xkey, prevXkey, text, out, wallet, prevWallet, wsrc, file, arg>>

Next ==
    \/ PubFromStr
    \/ PrivFromStr
    \/ PubNew
    \/ PrivNew
    \/ ElectrumXpub
    \/ ElectrumXprv
    \/ PubFromStrOut
    \/ PrivFromStrOut
    \/ PubToDescriptors
    \/ PrivToDescriptors
    \/ FromDescriptor
    \/ WalletNew
    \/ FromFile
    \/ ToDescriptors
    \/ ToFile
    \/ FromFileStored
    \/ FromFileExtra
    \/ WalletTypeFromStr
    \/ FromFileImported
    \/ FromFileReordered
    \/ FromDescriptorOut
    \/ MainStart
    \/ MainNoArgument
    \/ MainPriv
    \/ MainPub
    \/ MainFile
    \/ MainExit

Spec == Init /\ [][Next]_vars

---------------------------------------------------------------------------
(* The properties *)

\* the 78 bytes a vendor string carries
PayloadOf(str) == SubSeq(str[1].d, 1, PayloadLen)

\* the fields of a private key the codec carries (all but the compressed flag)
SamePrivKey(a, b) ==
    /\ a.kind = b.kind
    /\ a.xprv.network = b.xprv.network
    /\ a.xprv.depth = b.xprv.depth
    /\ a.xprv.parent_fingerprint = b.xprv.parent_fingerprint
    /\ a.xprv.child_number = b.xprv.child_number
    /\ a.xprv.chain_code = b.xprv.chain_code
    /\ a.xprv.private_key.key = b.xprv.private_key.key

\* C1: vendor codec round trip.  Decoding the encoding of a key gives back the
\* same network, depth, parent fingerprint, child number, chain code, key
\* material and kind, in both families; and encoding the key decoded from a
\* vendor string gives back that string (in the private family: a string whose
\* byte 45, the pad before the scalar, is zero as the encoder writes it).
C1_VendorRoundTrip ==
    /\ op = "pub_from_str_out" =>
           /\ status.tag = "ok"
           /\ xkey.pub = prevXkey.pub
    /\ op = "priv_from_str_out" =>
           /\ status.tag = "ok"
           /\ xkey.prv # None
           /\ SamePrivKey(xkey.prv[1], prevXkey.prv[1])
    /\ (op = "electrum_xpub" /\ text # <<>>) =>
           /\ status.tag = "ok"
           /\ out = <<text>>
    /\ (op = "electrum_xprv" /\ text # <<>> /\ PayloadOf(text)[46] = 0) =>
           /\ status.tag = "ok"
           /\ out = <<text>>

\* a hardened key of a wrapped kind at depth 255 has been encoded and decoded
C1_Witness ==
    /\ op = "priv_from_str_out"
    /\ status.tag = "ok"
    /\ prevXkey.prv[1].kind = SH_WSH
    /\ prevXkey.prv[1].xprv.network = "Bitcoin"
    /\ prevXkey.prv[1].xprv.child_number = [hardened |-> TRUE, index |-> 1]
    /\ prevXkey.prv[1].xprv.depth = 255
    /\ text[1].s = "Yprv"

\* the index of the entry of a table with a prefix, and with a pair (0: none)
ByPrefix(table, prefix) ==
    IF \E i \in 1..Len(table) : table[i].prefix = prefix
    THEN CHOOSE i \in 1..Len(table) : table[i].prefix = prefix
    ELSE 0

ByPair(table, network, kind) ==
    IF \E i \in 1..Len(table) : table[i].network = network /\ table[i].kind = kind
    THEN CHOOSE i \in 1..Len(table) : table[i].network = network /\ table[i].kind = kind
    ELSE 0

WellFormedTable(table) ==
    /\ Len(table) = 10
    /\ {<<table[i].network, table[i].kind>> : i \in 1..Len(table)}
           = {"Bitcoin", "Testnet"} \X Kinds
    /\ \A i \in 1..Len(table) : Len(table[i].prefix) = 4
    /\ \A i, j \in 1..Len(table) :
           i # j => /\ table[i].prefix # table[j].prefix
                    /\ <<table[i].network, table[i].kind>>
                           # <<table[j].network, table[j].kind>>
    /\ \A i \in 1..Len(table) :
           /\ ByPair(table, table[i].network, table[i].kind) = i
           /\ ByPrefix(table, table[i].prefix) = i

\* the operations that consult the tables
CodecOps == KeyOps \cup {"electrum_xpub", "electrum_xprv",
                         "pub_to_descriptors", "priv_to_descriptors"}

\* C9: sentinel table well-formedness.  Whenever a codec operation has run,
\* the tables it consults are well-formed: each family's table has exactly 10
\* entries, one for each of the 2 networks and 5 script kinds; no two entries
\* of a family share a prefix or a (network, kind) pair, so the lookup by
\* prefix and the lookup by (network, kind) are inverse to each other.
C9_SentinelTables ==
    op \in CodecOps =>
    /\ WellFormedTable(initialize_sentinels_pub)
    /\ WellFormedTable(initialize_sentinels_priv)
    /\ \A i \in 1..Len(initialize_sentinels_pub) :
           match_electrum_xpub(initialize_sentinels_pub[i].prefix)
               = Ok([network |-> initialize_sentinels_pub[i].network,
                     kind |-> initialize_sentinels_pub[i].kind])
    /\ \A i \in 1..Len(initialize_sentinels_priv) :
           match_electrum_xprv(initialize_sentinels_priv[i].prefix)
               = Ok([network |-> initialize_sentinels_priv[i].network,
                     kind |-> initialize_sentinels_priv[i].kind])

\* the last entry of the public table has been found by its prefix, and then
\* by its (network, kind) pair
C9_Witness ==
    /\ op = "electrum_xpub"
    /\ status.tag = "ok"
    /\ text # <<>>
    /\ SubSeq(PayloadOf(text), 1, 4) = initialize_sentinels_pub[10].prefix
    /\ xkey.pub[1].kind = WSH
    /\ xkey.pub[1].xpub.network = "Main"
    /\ SubSeq(PayloadOf(out[1]), 1, 4) = initialize_sentinels_pub[10].prefix

\* the fields of a decoded key that both families lay out alike
LayoutOf(data, key, child_number) ==
    /\ key.depth = data[5]
    /\ key.parent_fingerprint = SubSeq(data, 6, 9)
    /\ child_number.hardened = (data[10] >= 128)
    /\ child_number.index
           = (data[10] % 128) * 16777216 + data[11] * 65536 + data[12] * 256 + data[13]
    /\ key.chain_code = SubSeq(data, 14, 45)

\* C10: decode layout.  A 78-byte payload whose first 4 bytes are a prefix of
\* the family's table (and whose key material the curve accepts) decodes, to
\* the network and kind of that table entry, depth = byte 4, parent
\* fingerprint = bytes 5-8, child number = bytes 9-12 big-endian with the top
\* bit as the hardened flag, chain code = bytes 13-44, key material = bytes
\* 45-77 (public) or 46-77 (private); the standard form of the key carries the
\* standard prefix of the same network.
C10_DecodeLayout ==
    /\ op = "pub_from_str" =>
           LET table == initialize_sentinels_pub
               data == PayloadOf(text)
               i == ByPrefix(table, SubSeq(data, 1, 4))
           IN  /\ ( /\ decode_check(text).ok
                    /\ Len(decode_check(text).val) = PayloadLen
                    /\ i # 0
                    /\ PublicKey_from_slice(SubSeq(data, 46, 78)).ok )
                      => status.tag = "ok"
               /\ status.tag = "ok" =>
                      /\ i # 0
                      /\ xkey.pub[1].kind = table[i].kind
                      /\ xkey.pub[1].xpub.network
                             = (IF table[i].network = "Bitcoin" THEN "Main" ELSE "Test")
                      /\ LayoutOf(data, xkey.pub[1].xpub, xkey.pub[1].xpub.child_number)
                      /\ xkey.pub[1].xpub.public_key = SubSeq(data, 46, 78)
                      /\ SubSeq(PayloadOf(Xpub_to_string(xkey.pub[1].xpub)), 1, 4)
                             = table[ByPair(table, table[i].network, PKH)].prefix
    /\ op = "priv_from_str" =>
           LET table == initialize_sentinels_priv
               data == PayloadOf(text)
               i == ByPrefix(table, SubSeq(data, 1, 4))
           IN  /\ ( /\ decode_check(text).ok
                    /\ Len(decode_check(text).val) = PayloadLen
                    /\ i # 0
                    /\ SecretKey_from_slice(SubSeq(data, 47, 78)).ok )
                      => status.tag = "ok"
               /\ status.tag = "ok" =>
                      /\ i # 0
                      /\ xkey.prv[1].kind = table[i].kind
                      /\ xkey.prv[1].xprv.network = table[i].network
                      /\ LayoutOf(data, xkey.prv[1].xprv, xkey.prv[1].xprv.child_number)
                      /\ xkey.prv[1].xprv.private_key.key = SubSeq(data, 47, 78)
                      /\ SubSeq(PayloadOf(ExtendedPrivKey_to_string(xkey.prv[1].xprv)), 1, 4)
                             = table[ByPair(table, table[i].network, PKH)].prefix

\* a vpub with a hardened child number has been decoded: network test, kind
\* wpkh, and a standard string that is a tpub
C10_Witness ==
    /\ op = "pub_from_str"
    /\ status.tag = "ok"
    /\ text[1].s = "vpub"
    /\ PayloadOf(text)[10] = 128
    /\ xkey.pub[1].kind = WPKH
    /\ xkey.pub[1].xpub.network = "Test"
    /\ xkey.pub[1].xpub.child_number.hardened
    /\ Xpub_to_string(xkey.pub[1].xpub)[1].s = "tpub"

\* a single-sig external descriptor of one of the five kinds, over a standard
\* key, closed as its kind requires
WellFormedSingle(a) ==
    /\ a.form = "single"
    /\ a.kind \in Kinds
    /\ \E i \in 1..Len(KeyPool) : a.keys[1] = KeyPool[i]
    /\ a.closing = (IF IsWrapped(a.kind) THEN 2 ELSE 1)

\* C2: single-sig descriptor round trip.  For every single-sig external
\* descriptor D = kind(K/0/*), closed once more when the kind is wrapped, with
\* kind any of the five and K a standard key, from_descriptor(D) succeeds with
\* a Standard wallet, and to_descriptors of that wallet has D as its first
\* element.
C2_SingleSigRoundTrip ==
    /\ (op = "from_descriptor" /\ WellFormedSingle(arg)) =>
           /\ status.tag = "ok"
           /\ wallet # None
           /\ wallet[1].wallet_type = Standard
    /\ (op = "to_descriptors" /\ wsrc = "descriptor" /\ prevWallet = None
        /\ WellFormedSingle(arg)) =>
           /\ status.tag = "ok"
           /\ out[1] = text

\* a multisig external descriptor with at least 2 keys and a threshold from 1
\* to the number of keys
WellFormedMulti(a) ==
    /\ a.form = "multi"
    /\ Len(a.keys) >= 2
    /\ 1 <= a.t
    /\ a.t <= Len(a.keys)

\* the standard text of the key a keystore resolves to
KeyTextOf(ks) == xkey_str(get_xkey(ks).val)

\* C3: multisig descriptor round trip.  For every external descriptor
\* D = outer(sortedmulti(t,K1/0/*,...,Kn/0/*)) with balanced parentheses, outer
\* in {sh, wsh, sh(wsh}, n >= 2 and 1 <= t <= n, from_descriptor(D) succeeds
\* with wallet type Multisig(t, n) and keystores in the order K1..Kn, and
\* to_descriptors of that wallet has D as its first element.
C3_MultisigRoundTrip ==
    /\ (op = "from_descriptor" /\ WellFormedMulti(arg)) =>
           /\ status.tag = "ok"
           /\ wallet # None
           /\ wallet[1].wallet_type = Multisig(arg.t, Len(arg.keys))
           /\ Len(wallet[1].keystores) = Len(arg.keys)
           /\ \A i \in 1..Len(arg.keys) :
                  KeyTextOf(wallet[1].keystores[i]) = arg.keys[i]
    /\ (op = "to_descriptors" /\ wsrc = "descriptor" /\ prevWallet = None
        /\ WellFormedMulti(arg)) =>
           /\ status.tag = "ok"
           /\ out[1] = text

\* the number of "(" a descriptor of the kind opens: one for a single key, two
\* around a sortedmulti, and one more when the kind is wrapped
OpeningOf(kind, multi) ==
    (IF multi THEN 2 ELSE 1) + (IF ContainsParen(kind) THEN 1 ELSE 0)

Balanced(desc, kind, multi) ==
    /\ Count(desc, "(") = Count(desc, ")")
    /\ Count(desc, "(") = OpeningOf(kind, multi)

\* C4: wrapped-kind parenthesis invariant.  Every descriptor assembled by a
\* to_descriptors operation (of a public key, of a private key, of a Standard
\* and of a Multisig wallet), for every kind, has as many ")" as "(", and a
\* wrapped kind has exactly one more "(" than an unwrapped kind of the same
\* structure.
C4_ParenthesesBalanced ==
    /\ (op = "pub_to_descriptors" /\ status.tag = "ok") =>
           \A i \in 1..Len(out) : Balanced(out[i], xkey.pub[1].kind, FALSE)
    /\ (op = "priv_to_descriptors" /\ status.tag = "ok") =>
           \A i \in 1..Len(out) : Balanced(out[i], xkey.prv[1].kind, FALSE)
    /\ (op = "to_descriptors" /\ status.tag = "ok") =>
           \A i \in 1..Len(out) :
               Balanced(out[i], kind_of(get_xkey(wallet[1].keystores[1]).val),
                        wallet[1].wallet_type.tag = "Multisig")

\* whether position i of a descriptor is the 0 of a "/0/*"
IsBranchDigit(desc, i) == i >= 2 /\ MatchAt(desc, i - 1, Branch0)

\* C5: change-address derivation.  In every pair a to_descriptors operation
\* returns (of a public key, of a private key, of a Standard and of a Multisig
\* wallet with any number of keys), the change descriptor is the external one
\* with the 0 of every "/0/*" turned into 1, and is otherwise the same,
\* character for character.
C5_ChangeDerivation ==
    (op \in {"pub_to_descriptors", "priv_to_descriptors", "to_descriptors"}
     /\ status.tag = "ok") =>
        /\ Len(out) = 2
        /\ Len(out[2]) = Len(out[1])
        /\ \E i \in 1..Len(out[1]) : IsBranchDigit(out[1], i)
        /\ \A i \in 1..Len(out[1]) :
               out[2][i] = IF IsBranchDigit(out[1], i) THEN Tok("1") ELSE out[1][i]

\* the descriptors of a multisig wallet with as many signers as the bound allows
C5_Witness ==
    /\ op = "to_descriptors"
    /\ status.tag = "ok"
    /\ wallet[1].wallet_type.tag = "Multisig"
    /\ Len(wallet[1].keystores) = MaxSigners
    /\ Cardinality({i \in 1..Len(out[1]) : IsBranchDigit(out[1], i)}) = MaxSigners
    /\ out[2] # out[1]

\* C6: rejection of malformed multisig.  A multisig wallet whose threshold
\* exceeds its keystore count, or whose keystore count differs from the count
\* its wallet type names, and a multisig descriptor with fewer than 2 signer
\* keys, is rejected with an error by new, by from_descriptor and by the
\* reading of a stored document; and the keystores of a wallet that is
\* returned are those handed in, none dropped and none added.
C6_MalformedMultisigRejected ==
    /\ (op = "new" /\ Len(arg.ks) # 1 /\ arg.t > Len(arg.ks)) =>
           status.tag = "err" /\ wallet = None
    /\ (op = "from_descriptor" /\ arg.form = "multi"
        /\ (Len(arg.keys) < 2 \/ arg.t > Len(arg.keys))) =>
           status.tag = "err" /\ wallet = None
    /\ (op = "from_file" /\ arg.wt.tag = "Multisig"
        /\ (arg.wt.x > Len(arg.ks) \/ Len(arg.ks) # arg.wt.y)) =>
           status.tag = "err" /\ wallet = None
    /\ (op \in {"new", "from_file"} /\ status.tag = "ok") =>
           wallet[1].keystores = arg.ks
    /\ (op = "from_descriptor" /\ arg.form = "multi" /\ status.tag = "ok") =>
           Len(wallet[1].keystores) = Len(arg.keys)

\* C7: wallet container invariant.  Every wallet returned by new, by
\* from_descriptor or by from_file has as many keystores as its wallet type
\* implies (1 for Standard, total for Multisig(threshold, total)), and a
\* Multisig wallet has 1 <= threshold <= total < 255.
C7_ContainerInvariant ==
    (op \in {"new", "from_descriptor", "from_file"} /\ status.tag = "ok") =>
        /\ wallet # None
        /\ wallet[1].wallet_type.tag = "Standard" => Len(wallet[1].keystores) = 1
        /\ wallet[1].wallet_type.tag = "Multisig" =>
               /\ Len(wallet[1].keystores) = wallet[1].wallet_type.y
               /\ 1 <= wallet[1].wallet_type.x
               /\ wallet[1].wallet_type.x <= wallet[1].wallet_type.y
               /\ wallet[1].wallet_type.y < KeystoreLimit

\* whether the public key of a keystore is the one its private key derives
Agrees(ks) ==
    ks.xprv # None =>
        LET Same(prv, pub) ==
                /\ prv.ok
                /\ pub.ok
                /\ pub.val.kind = prv.val.kind
                /\ pub.val.xpub = ExtendedPubKey_from_priv(prv.val.xprv)
        IN  Same(ElectrumExtendedPrivKey_from_str(ks.xprv[1]),
                 ElectrumExtendedPubKey_from_str(ks.xpub))

\* C8: keystore agreement invariant.  In every wallet returned by
\* from_descriptor or by from_file, a keystore that holds a private key holds
\* as its public key the one derived from that private key: same network,
\* depth, parent fingerprint, child number, chain code, key and kind.
C8_KeystoreAgreement ==
    (op \in {"from_descriptor", "from_file"} /\ status.tag = "ok") =>
        \A i \in 1..Len(wallet[1].keystores) : Agrees(wallet[1].keystores[i])

\* the result a from_str of a family must give for a string that fails one of
\* the three checks, in their order; "none" when the string passes all three
DecodeErrorOf(table, str) ==
    LET d == decode_check(str)
    IN  IF ~d.ok
        THEN [tag |-> "err", kind |-> "Base58"]
        ELSE IF Len(d.val) # PayloadLen
        THEN [tag |-> "err", kind |-> "InvalidLength", info |-> <<Len(d.val)>>]
        ELSE IF ByPrefix(table, SubSeq(d.val, 1, 4)) = 0
        THEN [tag |-> "err", kind |-> "InvalidExtendedKeyVersion",
              info |-> SubSeq(d.val, 1, 4)]
        ELSE [tag |-> "none"]

\* whether a status is the expected one (the collaborator's error is not
\* looked into)
IsDecodeError(st, expected) ==
    /\ st.tag = expected.tag
    /\ st.kind = expected.kind
    /\ expected.kind # "Base58" => st.info = expected.info

\* C11: decode error outcomes and their order, in both families.  A string
\* that fails the base58 checksum decoding fails with the collaborator's error;
\* a payload that is not of 78 bytes fails with InvalidLength and its length; a
\* payload of 78 bytes whose first 4 are no prefix of the family's table fails
\* with InvalidExtendedKeyVersion and those 4 bytes; the checks come in that
\* order and before the key material is looked at, and no key is returned.
C11_DecodeErrors ==
    /\ (op = "pub_from_str"
        /\ DecodeErrorOf(initialize_sentinels_pub, text).tag = "err") =>
           /\ IsDecodeError(status, DecodeErrorOf(initialize_sentinels_pub, text))
           /\ xkey = NoKeys
    /\ (op = "priv_from_str"
        /\ DecodeErrorOf(initialize_sentinels_priv, text).tag = "err") =>
           /\ IsDecodeError(status, DecodeErrorOf(initialize_sentinels_priv, text))
           /\ xkey = NoKeys

\* a payload of 78 bytes with a version of no table and a point off the curve
\* has been refused for its version
C11_Witness ==
    /\ op = "pub_from_str"
    /\ decode_check(text).ok
    /\ PayloadOf(text) = BadPayload
    /\ ~PublicKey_from_slice(SubSeq(PayloadOf(text), 46, 78)).ok
    /\ status.kind = "InvalidExtendedKeyVersion"
    /\ status.info = UnknownVersion

\* what an encoder must have done for a key whose (network, kind) pair is
\* entry i of the family's table, or is in no entry (i = 0)
EncodedAs(table, i) ==
    IF i # 0
    THEN /\ status.tag = "ok"
         /\ Len(out) = 1
         /\ decode_check(out[1]).ok
         /\ Len(decode_check(out[1]).val) = PayloadLen
         /\ SubSeq(PayloadOf(out[1]), 1, 4) = table[i].prefix
    ELSE /\ status.tag = "err"
         /\ status.kind = "UnknownType"
         /\ out = <<>>

\* C12: encode error.  electrum_xpub and electrum_xprv succeed for a key
\* whose (network, kind) pair is in the family's table, and for a key whose
\* pair is not in the table (a kind outside the five script kinds, a network
\* outside the two) they return the unknown-type error and no vendor string.
C12_EncodeErrors ==
    /\ op = "electrum_xpub" =>
           EncodedAs(initialize_sentinels_pub,
                     ByPair(initialize_sentinels_pub,
                            IF xkey.pub[1].xpub.network = "Main"
                            THEN "Bitcoin" ELSE "Testnet",
                            xkey.pub[1].kind))
    /\ op = "electrum_xprv" =>
           EncodedAs(initialize_sentinels_priv,
                     ByPair(initialize_sentinels_priv,
                            xkey.prv[1].xprv.network, xkey.prv[1].kind))

\* a public key of a kind outside the five has been refused by the encoder
C12_Witness ==
    /\ op = "electrum_xpub"
    /\ xkey.pub[1].kind = KindTr
    /\ xkey.pub[1].xpub.network = "Main"
    /\ status.kind = "UnknownType"
    /\ out = <<>>

\* C13: stored-document round trip.  For every wallet from_descriptor
\* returns, Standard or Multisig with any number of keystores, the wallet read
\* by from_file from the file to_file wrote equals it: same addresses, wallet
\* type, and keystores in the same order.
C13_StoredRoundTrip ==
    (op = "from_file_stored" /\ wsrc = "descriptor") =>
        /\ status.tag = "ok"
        /\ wallet # None
        /\ wallet[1].addresses = prevWallet[1].addresses
        /\ wallet[1].wallet_type = prevWallet[1].wallet_type
        /\ wallet[1].keystores = prevWallet[1].keystores

\* a multisig wallet of as many keystores as the bound allows, keystores with
\* and without a private key among them, has been written and read back
C13_Witness ==
    /\ op = "from_file_stored"
    /\ wsrc = "descriptor"
    /\ status.tag = "ok"
    /\ prevWallet[1].wallet_type = Multisig(2, MaxSigners)
    /\ Len(file[1]) = MaxSigners + 2
    /\ wallet[1].keystores[1].xprv = None
    /\ wallet[1].keystores[2].xprv # None
    /\ wallet[1].keystores[1] # wallet[1].keystores[3]

\* the field name "x<i>/"
XName(i) == <<Tok("x")>> \o Decimal(i) \o <<Tok("/")>>

\* the value a keystore is written as: its type, its private key or null, and
\* its public key
WrittenAs(v, ks) ==
    /\ v.t = "keystore"
    /\ v.ks.type = Some(ks.type)
    /\ v.ks.xprv = ks.xprv
    /\ v.ks.xpub = Some(ks.xpub)

\* the document written holds addresses and wallet_type (as "standard" or
\* "<t>of<n>") and then the keystores: one under "keystore" for Standard, the
\* i-th under "x<i>/" for Multisig; and nothing else
FieldsOf(doc, w) ==
    /\ Len(doc) = 2 + Len(w.keystores)
    /\ doc[1].name = NameAddresses
    /\ doc[1].value.t = "addresses"
    /\ doc[1].value.addresses.change = Some(w.addresses.change)
    /\ doc[1].value.addresses.receiving = Some(w.addresses.receiving)
    /\ doc[2].name = NameWalletType
    /\ doc[2].value.t = "string"
    /\ doc[2].value.str = (IF w.wallet_type.tag = "Standard"
                           THEN TextStandard
                           ELSE Decimal(w.wallet_type.x) \o TextOf
                                \o Decimal(w.wallet_type.y))
    /\ w.wallet_type.tag = "Standard" =>
           /\ Len(w.keystores) = 1
           /\ doc[3].name = NameKeystore
           /\ WrittenAs(doc[3].value, w.keystores[1])
    /\ w.wallet_type.tag = "Multisig" =>
           \A i \in 1..Len(w.keystores) :
               /\ doc[2 + i].name = XName(i)
               /\ WrittenAs(doc[2 + i].value, w.keystores[i])

\* C14 as stated: fields written.  Serializing a wallet writes addresses and
\* wallet_type ("standard" or "<t>of<n>") and a single keystore field for
\* Standard, or for Multisig the i-th keystore under x<i>/ (from 1); and no
\* top-level field outside addresses, wallet_type, keystore, x1/ .. x7/.
C14_FieldsWrittenUpToX7 ==
    op = "to_file" =>
        /\ FieldsOf(file[1], wallet[1])
        /\ \A f \in 1..Len(file[1]) :
               file[1][f].name \in {NameAddresses, NameWalletType, NameKeystore}
                                   \cup {XName(i) : i \in 1..7}

\* C14 as amended: fields written.  Serializing a wallet writes addresses and
\* wallet_type ("standard" or "<t>of<n>") and a single keystore field for
\* Standard, or for Multisig the i-th keystore under x<i>/ (from 1); and no
\* top-level field outside addresses, wallet_type, keystore, x1/ .. xn/, n the
\* number of keystores of the wallet.
C14_FieldsWritten ==
    op = "to_file" =>
        /\ FieldsOf(file[1], wallet[1])
        /\ \A f \in 1..Len(file[1]) :
               file[1][f].name \in {NameAddresses, NameWalletType, NameKeystore}
                                   \cup {XName(i) : i \in 1..Len(wallet[1].keystores)}

\* a multisig wallet of more than 7 keystores has been written
C14_Witness ==
    /\ op = "to_file"
    /\ wallet[1].wallet_type.tag = "Multisig"
    /\ Len(wallet[1].keystores) = MaxSigners
    /\ MaxSigners > 7
    /\ file[1][Len(file[1])].name = XName(MaxSigners)

\* C15: unknown fields are ignored on read.  Two documents that differ only
\* in a top-level field of a name other than addresses, wallet_type, keystore
\* and x<i>/ are read as equal wallets, or both fail: no such field is taken
\* for a keystore, for the addresses or for the wallet type.
C15_UnknownFieldsIgnored ==
    op = "from_file_extra" =>
        /\ wallet = prevWallet
        /\ (status.tag = "ok") = (prevWallet # None)

\* k + "(" + K + "/" + branch + "/*)" + closing, closing being ")" exactly when
\* k contains "("
SingleSigText(k, K, branch) ==
    k \o <<Tok("(")>> \o K \o <<Tok("/"), Tok(branch), Tok("/"), Tok("*"), Tok(")")>>
      \o (IF Count(k, "(") > 0 THEN <<Tok(")")>> ELSE <<>>)

\* whether a text is a standard-form extended key of the family
IsStandardKey(K, names) == Len(K) = 1 /\ ~IsLit(K[1]) /\ K[1].s \in names

\* C16: single-sig assembly.  For every key of kind k and standard-form
\* string K, to_descriptors of a public and of a private key returns external
\* = k + "(" + K + "/0/*)" + closing and change = k + "(" + K + "/1/*)" +
\* closing, closing being ")" exactly when k contains "(" and empty otherwise.
C16_SingleSigAssembly ==
    /\ op = "pub_to_descriptors" =>
           /\ IsStandardKey(Xpub_to_string(xkey.pub[1].xpub), {"tpub", "xpub"})
           /\ out = << SingleSigText(xkey.pub[1].kind,
                                     Xpub_to_string(xkey.pub[1].xpub), "0"),
                       SingleSigText(xkey.pub[1].kind,
                                     Xpub_to_string(xkey.pub[1].xpub), "1") >>
    /\ op = "priv_to_descriptors" =>
           /\ IsStandardKey(ExtendedPrivKey_to_string(xkey.prv[1].xprv), {"tprv", "xprv"})
           /\ out = << SingleSigText(xkey.prv[1].kind,
                                     ExtendedPrivKey_to_string(xkey.prv[1].xprv), "0"),
                       SingleSigText(xkey.prv[1].kind,
                                     ExtendedPrivKey_to_string(xkey.prv[1].xprv), "1") >>

\* the descriptors of a private key of the wrapped kind sh(wpkh, decoded from
\* a uprv: sh(wpkh(tprv.../0/*)) and sh(wpkh(tprv.../1/*))
C16_Witness ==
    /\ op = "priv_to_descriptors"
    /\ text # <<>>
    /\ text[1].s = "uprv"
    /\ xkey.prv[1].kind = SH_WPKH
    /\ Len(out) = 2
    /\ Len(out[1]) = 11
    /\ SubSeq(out[1], 1, 4) = <<Tok("sh"), Tok("("), Tok("wpkh"), Tok("(")>>
    /\ out[1][5].s = "tprv"
    /\ SubSeq(out[1], 6, 11)
           = <<Tok("/"), Tok("0"), Tok("/"), Tok("*"), Tok(")"), Tok(")")>>
    /\ SubSeq(out[2], 6, 11)
           = <<Tok("/"), Tok("1"), Tok("/"), Tok("*"), Tok(")"), Tok(")")>>

\* whether a text is "<t>of<n>" with decimal t and n and nothing else
IsTofN(str, t, n) ==
    \E k \in 1..Len(str) :
        /\ k + 3 <= Len(str)
        /\ \A j \in 1..k : str[j] \in Digits
        /\ SubSeq(str, k + 1, k + 2) = TextOf
        /\ \A j \in (k + 3)..Len(str) : str[j] \in Digits
        /\ NumVal(SubSeq(str, 1, k)) = t
        /\ NumVal(SubSeq(str, k + 3, Len(str))) = n

\* C17: wallet-type string errors are values.  For every text,
\* WalletType::from_str returns a wallet type or an error value holding the
\* text, and never aborts; it returns Standard only for "standard" and
\* Multisig(t, n) only for "<t>of<n>" with decimal t and n; every other text,
\* one whose numbers do not fit 8 bits included, gives the error.
C17_WalletTypeErrorsAreValues ==
    op = "wallet_type_from_str" =>
        /\ status.tag \in {"ok", "err"}
        /\ status.tag = "err" => status.info = text
        /\ status.tag = "ok" =>
               /\ Len(out) = 1
               /\ out[1] = Standard => text = TextStandard
               /\ out[1].tag = "Multisig" => IsTofN(text, out[1].x, out[1].y)
        /\ text = TextStandard => (status.tag = "ok" /\ out = <<Standard>>)
        /\ \A t, n \in 0..U8Max :
               IsTofN(text, t, n) => (status.tag = "ok" /\ out = <<Multisig(t, n)>>)
        /\ (text # TextStandard /\ ~\E t, n \in 0..U8Max : IsTofN(text, t, n)) =>
               status.tag = "err"

\* C18: imported-key wallets are rejected on read.  A document whose
\* addresses object has no change and no receiving list (as written for
\* wallets of imported addresses or private keys) makes from_file fail with
\* the error of the missing field change, and no wallet is returned.
C18_ImportedRejected ==
    op = "from_file_imported" =>
        /\ status.tag = "err"
        /\ status.kind = "SerdeMissingField"
        /\ status.info = <<Tok("change")>>
        /\ wallet = None

\* the document of a wallet with imported private keys has been refused
C18_Witness ==
    /\ op = "from_file_imported"
    /\ Len(file[1]) = 3
    /\ file[1][1].value.addresses.change = None
    /\ file[1][2].value.ks.type = Some(TextImported)
    /\ file[1][3].value.str = TextImported
    /\ status.info = <<Tok("change")>>
    /\ wallet = None

\* the pair the key a keystore resolves to returns from its own to_descriptors
KeyLevelDescriptors(k) ==
    IF k.prv # None THEN priv_to_descriptors(k.prv[1]) ELSE pub_to_descriptors(k.pub[1])

\* C19: wallet-level and key-level assembly agree.  For a Standard wallet, of
\* each of the five kinds, to_descriptors of the wallet returns exactly the
\* external/change pair that the key its keystore resolves to returns from its
\* own to_descriptors.
C19_WalletAndKeyAgree ==
    (op = "to_descriptors" /\ wallet[1].wallet_type = Standard) =>
        /\ status.tag = "ok"
        /\ get_xkey(wallet[1].keystores[1]).ok
        /\ out = KeyLevelDescriptors(get_xkey(wallet[1].keystores[1]).val)

\* prefix + "(sortedmulti(" + t + "," + K_1 + "/0/*," + ... + K_n + "/0/*" + "))"
\* for the keys of the keystores in stored order, prefix being sh for the kind
\* pkh and the kind itself otherwise (the kind is that of the first key)
MultisigBody(w) ==
    LET kind == kind_of(get_xkey(w.keystores[1]).val)
    IN  (IF kind = <<Tok("pkh")>> THEN <<Tok("sh")>> ELSE kind)
        \o <<Tok("("), Tok("sortedmulti"), Tok("(")>>
        \o Decimal(w.wallet_type.x)
        \o JoinKeys([i \in 1..Len(w.keystores) |-> KeyTextOf(w.keystores[i])])
        \o <<Tok(")"), Tok(")")>>

\* whether every keystore of a wallet resolves to a key
AllResolve(w) == \A i \in 1..Len(w.keystores) : get_xkey(w.keystores[i]).ok

\* C20: multisig assembly.  For a Multisig(t, n) wallet with keystores
\* K_1..K_n in stored order, the external descriptor is prefix +
\* "(sortedmulti(" + t + "," + K_1 + "/0/*," + ... + K_n + "/0/*" + "))", with
\* prefix sh for the kind pkh and the kind itself otherwise, followed by one
\* more ")" if and only if that text has more "(" than ")"; the keys are in
\* stored order and at most one parenthesis is appended.
C20_MultisigAssembly ==
    (op = "to_descriptors" /\ wallet[1].wallet_type.tag = "Multisig"
     /\ Len(wallet[1].keystores) >= 1 /\ AllResolve(wallet[1])) =>
        /\ status.tag = "ok"
        /\ Len(out) = 2
        /\ out[1] = MultisigBody(wallet[1])
                       \o (IF Count(MultisigBody(wallet[1]), "(")
                               > Count(MultisigBody(wallet[1]), ")")
                           THEN <<Tok(")")>> ELSE <<>>)
        /\ Len(out[1]) - Len(MultisigBody(wallet[1])) <= 1

\* the descriptor of a wallet of kind pkh with as many keystores as the bound
\* allows, written with the prefix sh and no parenthesis appended
C20_Witness ==
    /\ op = "to_descriptors"
    /\ status.tag = "ok"
    /\ wallet[1].wallet_type = Multisig(2, MaxSigners)
    /\ kind_of(get_xkey(wallet[1].keystores[1]).val) = PKH
    /\ out[1][1] = Tok("sh")
    /\ out[1] = MultisigBody(wallet[1])
    /\ Count(out[1], ",") = MaxSigners

---------------------------------------------------------------------------
(* C21: the kind a multisig descriptor is parsed to *)

\* the orders the three alternatives of the multisig pattern can be tried in
KindOrders ==
    {o \in [1..Len(MultiKinds) -> {MultiKinds[i] : i \in 1..Len(MultiKinds)}] :
        \A i, j \in 1..Len(MultiKinds) : i # j => o[i] # o[j]}

\* the kind of the keystores for an outer template
KindOfTemplate(template) == IF template = <<Tok("sh")>> THEN PKH ELSE template

\* "sh(wsh(sortedmulti("
ShWshSortedmulti == SH_WSH \o <<Tok("("), Tok("sortedmulti"), Tok("(")>>

\* C21: from_descriptor on a multisig descriptor gives every keystore the kind
\* pkh for sh(sortedmulti(, wsh for wsh(sortedmulti( and sh(wsh for
\* sh(wsh(sortedmulti(; and a text that begins sh(wsh(sortedmulti( is captured
\* as sh(wsh or not at all, in whatever order the alternatives are tried.
C21_MultisigKindMapping ==
    (op = "from_descriptor" /\ arg.form = "multi") =>
        /\ wallet # None =>
               \A i \in 1..Len(wallet[1].keystores) :
                   \E k \in {get_xkey(wallet[1].keystores[i])} :
                       k.ok /\ kind_of(k.val) = KindOfTemplate(arg.kind)
        /\ MatchAt(text, 1, ShWshSortedmulti) =>
               \A o \in KindOrders :
                   \E c \in {MultiCapturesIn(o, text)} :
                       /\ c = MultiCaptures(text)
                       /\ c = None \/ c[1][1] = SH_WSH

\* a sh(wsh(sortedmulti( descriptor was parsed to a wallet of sh(wsh keystores
C21_Witness ==
    /\ op = "from_descriptor"
    /\ arg.form = "multi"
    /\ arg.kind = SH_WSH
    /\ MatchAt(text, 1, ShWshSortedmulti)
    /\ wallet # None
    /\ Len(wallet[1].keystores) >= 2
    /\ \A i \in 1..Len(wallet[1].keystores) :
           kind_of(get_xkey(wallet[1].keystores[i]).val) = SH_WSH

---------------------------------------------------------------------------
(* C22: the private key of a keystore is the one descriptors are built from *)

\* the key tokens of a descriptor, in order
KeyTokens(desc) == SelectSeq(desc, LAMBDA t : ~IsLit(t))

\* the standard form of the private key a keystore holds
PrivateStandardForm(ks) ==
    ExtendedPrivKey_to_string(ElectrumExtendedPrivKey_from_str(ks.xprv[1]).val.xprv)

\* C22: a keystore built by from_descriptor holds a vendor private key exactly
\* when its descriptor token parses as a standard private key, and otherwise
\* only the vendor public key; and to_descriptors writes, for every keystore
\* holding a private key, the standard form of that private key (the token it
\* was built from, for a wallet of from_descriptor) and no public key.
C22_PrivateKeyPreferred ==
    /\ (op = "from_descriptor" /\ wallet # None) =>
           /\ Len(wallet[1].keystores) = Len(arg.keys)
           /\ \A i \in 1..Len(arg.keys) :
                  \E ks \in {wallet[1].keystores[i]} :
                      /\ (ks.xprv # None) <=> ExtendedPrivKey_from_str(arg.keys[i]).ok
                      /\ ks.xprv # None => ElectrumExtendedPrivKey_from_str(ks.xprv[1]).ok
                      /\ ElectrumExtendedPubKey_from_str(ks.xpub).ok
    /\ (op = "to_descriptors" /\ status.tag = "ok") =>
           \A d \in 1..Len(out) :
               \A i \in 1..Len(wallet[1].keystores) :
                   \E ks \in {wallet[1].keystores[i]} :
                       ks.xprv # None =>
                           /\ Len(KeyTokens(out[d])) = Len(wallet[1].keystores)
                           /\ <<KeyTokens(out[d])[i]>> = PrivateStandardForm(ks)
                           /\ KeyTokens(out[d])[i].s \in {"tprv", "xprv"}
                           /\ wsrc = "descriptor" => <<KeyTokens(out[d])[i]>> = arg.keys[i]

\* descriptors were built for a multisig wallet parsed from a descriptor of
\* private and public keys
C22_Witness ==
    /\ op = "to_descriptors"
    /\ status.tag = "ok"
    /\ wsrc = "descriptor"
    /\ arg.form = "multi"
    /\ Len(out) = 2
    /\ \E i, j \in 1..Len(wallet[1].keystores) :
           /\ wallet[1].keystores[i].xprv # None
           /\ wallet[1].keystores[j].xprv = None
           /\ KeyTokens(out[1])[i].s = "tprv"
           /\ KeyTokens(out[1])[j].s \in {"tpub", "xpub"}

---------------------------------------------------------------------------
(* C23: the pad byte of a private payload *)

\* the position of byte 45 (counted from 0) in a payload
PadAt == 46

\* C23: ElectrumExtendedPrivKey::from_str rejects a payload whose byte 45 is
\* not zero, and electrum_xprv writes a payload of exactly 78 bytes whose
\* byte 45 is zero.
C23_PrivatePadByte ==
    /\ (op \in {"priv_from_str", "priv_from_str_out"}
         /\ decode_check(text).ok
         /\ Len(decode_check(text).val) = PayloadLen
         /\ decode_check(text).val[PadAt] # 0) => status.tag # "ok"
    /\ (op = "electrum_xprv" /\ status.tag = "ok") =>
           /\ Len(out) = 1
           /\ Len(out[1][1].d) = PayloadLen + 4
           /\ PayloadOf(out[1])[PadAt] = 0

---------------------------------------------------------------------------
(* C24: the keystore of field x<i>/ is the i-th keystore of the wallet *)

\* the fields of a document that are named x<i>/
FieldsNamed(doc, i) == {f \in 1..Len(doc) : doc[f].name = XName(i)}

\* C24: after a multisig document is read, the keystore stored under x<i>/ is
\* the i-th keystore of the wallet, in whatever order the fields stand in the
\* document, and the descriptors built from the wallet list the keys of
\* x1/, x2/, ... in this order.
C24_PositionalKeystores ==
    /\ (op = "from_file_reordered" /\ wallet # None) =>
           /\ Len(wallet[1].keystores) = Len(arg.ks)
           /\ \A i \in 1..Len(wallet[1].keystores) :
                  /\ FieldsNamed(file[1], i) # {}
                  /\ \A f \in FieldsNamed(file[1], i) :
                         Keystore_serialize(wallet[1].keystores[i]) = file[1][f].value
    /\ (op = "to_descriptors" /\ arg.form = "reordered" /\ status.tag = "ok") =>
           \A d \in 1..Len(out) :
               /\ Len(KeyTokens(out[d])) = Len(arg.ks)
               /\ \A i \in 1..Len(arg.ks) :
                      <<KeyTokens(out[d])[i]>> = KeyTextOf(arg.ks[i])

---------------------------------------------------------------------------
(* C25: the order in which main resolves its argument *)

\* the result of the first stage that succeeds, or of the last stage
FirstSuccess(electrum_x, at_path) ==
    IF main_priv(electrum_x).ok THEN [stage |-> "main_priv", r |-> main_priv(electrum_x)]
    ELSE IF main_pub(electrum_x).ok THEN [stage |-> "main_pub", r |-> main_pub(electrum_x)]
    ELSE [stage |-> "main_file", r |-> main_wallet_file(at_path)]

\* one step of main
C25_Step ==
    /\ (op' = "main_exit" /\ arg.keys = <<>>) =>
           /\ op = "main_start"
           /\ status' = StatusOf(err_msg)
           /\ out' = <<>>
    /\ op' = "main_priv" =>
           /\ op = "main_start"
           /\ arg.keys # <<>>
           /\ text' = arg.keys[1]
    /\ op' = "main_pub" =>
           /\ op = "main_priv"
           /\ ~main_priv(text).ok
    /\ op' = "main_file" =>
           /\ op = "main_pub"
           /\ ~main_priv(text).ok
           /\ ~main_pub(text).ok
    /\ (op' = "main_exit" /\ arg.keys # <<>>) =>
           \E first \in {FirstSuccess(text, file)} :
               /\ op = first.stage
               /\ status' = StatusOf(first.r)
               /\ out' = IF first.r.ok THEN first.r.val ELSE <<>>
               /\ status'.tag # "ok" =>
                      /\ ~main_priv(text).ok
                      /\ ~main_pub(text).ok
                      /\ ~main_wallet_file(file).ok

\* C25: without an argument main ends with the error message before any
\* decoding; with one it decodes a vendor private key first, a vendor public
\* key only if that failed, and reads the argument as the path of a wallet
\* document only if both failed; it prints the descriptors of the first stage
\* that succeeds and ends with an error only when every stage has failed.
C25_ResolutionOrder == [][C25_Step]_vars

\* both decoders failed, the wallet document was read and its descriptors printed
C25_Witness ==
    /\ op = "main_exit"
    /\ wsrc = "main_file"
    /\ status.tag = "ok"
    /\ Len(out) = 2
    /\ file # None
    /\ ~main_priv(text).ok
    /\ ~main_pub(text).ok

---------------------------------------------------------------------------
(* C26: the two key families are disjoint *)

\* the prefixes of a table
PrefixesOf(table) == {table[i].prefix : i \in 1..Len(table)}

\* the invalid-version error for the version of a string
IsInvalidVersion(r, str) ==
    /\ ~r.ok
    /\ r.err.tag = "err"
    /\ r.err.kind = "InvalidExtendedKeyVersion"
    /\ r.err.info = SubSeq(str[1].d, 1, 4)

\* C26: no prefix is in both sentinel tables; no string is accepted by both
\* ElectrumExtendedPrivKey::from_str and ElectrumExtendedPubKey::from_str; a
\* vendor public string (one the public decoder accepts, or one electrum_xpub
\* returned) fails in the private decoder with the invalid-version error, and
\* a vendor private string fails so in the public decoder.
C26_FamiliesDisjoint ==
    /\ PrefixesOf(initialize_sentinels_pub) \cap PrefixesOf(initialize_sentinels_priv) = {}
    /\ op \in {"pub_from_str", "priv_from_str", "pub_from_str_out", "priv_from_str_out",
                "main_priv", "main_pub"} =>
           /\ ~(ElectrumExtendedPubKey_from_str(text).ok
                /\ ElectrumExtendedPrivKey_from_str(text).ok)
           /\ ElectrumExtendedPubKey_from_str(text).ok =>
                  IsInvalidVersion(ElectrumExtendedPrivKey_from_str(text), text)
           /\ ElectrumExtendedPrivKey_from_str(text).ok =>
                  IsInvalidVersion(ElectrumExtendedPubKey_from_str(text), text)
    /\ (op = "priv_from_str" /\ ElectrumExtendedPubKey_from_str(text).ok) =>
           /\ status.kind = "InvalidExtendedKeyVersion"
           /\ xkey = NoKeys
    /\ (op = "pub_from_str" /\ ElectrumExtendedPrivKey_from_str(text).ok) =>
           /\ status.kind = "InvalidExtendedKeyVersion"
           /\ xkey = NoKeys
    /\ (op = "electrum_xpub" /\ status.tag = "ok") =>
           IsInvalidVersion(ElectrumExtendedPrivKey_from_str(out[1]), out[1])
    /\ (op = "electrum_xprv" /\ status.tag = "ok") =>
           IsInvalidVersion(ElectrumExtendedPubKey_from_str(out[1]), out[1])

\* a string the public decoder accepts was refused by the private decoder for
\* its version
C26_Witness ==
    /\ op = "priv_from_str"
    /\ ElectrumExtendedPubKey_from_str(text).ok
    /\ status.tag = "err"
    /\ status.kind = "InvalidExtendedKeyVersion"
    /\ status.info = SubSeq(text[1].d, 1, 4)
    /\ status.info \in PrefixesOf(initialize_sentinels_pub)

---------------------------------------------------------------------------
(* C27: from a wallet to its descriptor and back *)

\* a wallet that passes validate, whose keystores all resolve to keys of one
\* kind, each with the public key of its private key
RoundTripWallet(w) ==
    /\ validate(w).ok
    /\ AllResolve(w)
    /\ \A i, j \in 1..Len(w.keystores) :
           kind_of(get_xkey(w.keystores[i]).val) = kind_of(get_xkey(w.keystores[j]).val)
    /\ \A i \in 1..Len(w.keystores) : Agrees(w.keystores[i])

\* C27: for every wallet W that passes validate, whose keystores share one kind
\* and each hold the public key of their private key, to_descriptors(W)
\* succeeds, and from_descriptor of its first element succeeds with the wallet
\* type and the keystores of W, in order, and an empty address history.
C27_ReverseRoundTrip ==
    /\ (op = "to_descriptors" /\ RoundTripWallet(wallet[1])) => status.tag = "ok"
    /\ (op = "from_descriptor_out" /\ RoundTripWallet(prevWallet[1])) =>
           /\ status.tag = "ok"
           /\ wallet # None
           /\ wallet[1].wallet_type = prevWallet[1].wallet_type
           /\ wallet[1].keystores = prevWallet[1].keystores
           /\ wallet[1].addresses = Addresses_new

===========================================================================
